---- MODULE Spec2Model ----
(***************************************************************************)
(* bytehop: peer-to-peer file transfer (useFileTransfer composable).       *)
(*                                                                         *)
(* Byte strings are kept run-length encoded: a sequence of runs            *)
(* [v |-> byte value, n |-> repeat count], always in normal form (no empty *)
(* run, no two adjacent runs of the same value), so that two byte strings  *)
(* are equal exactly when their encodings are equal and a 64 KiB chunk is  *)
(* a handful of runs.                                                      *)
(***************************************************************************)
EXTENDS Integers, Sequences, FiniteSets, TLC

----------------------------------------------------------------------------
(* Byte strings (Uint8Array / Uint8ArrayList / Blob contents)              *)

Min(a, b) == IF a <= b THEN a ELSE b

RECURSIVE BLen(_)
BLen(b) == IF b = <<>> THEN 0 ELSE Head(b).n + BLen(Tail(b))

\* append one run to a normal-form byte string
BPush(b, v, n) ==
    IF n <= 0 THEN b
    ELSE IF b # <<>> /\ b[Len(b)].v = v
         THEN [b EXCEPT ![Len(b)].n = @ + n]
         ELSE Append(b, [v |-> v, n |-> n])

RECURSIVE BCat(_, _)
BCat(a, b) == IF b = <<>> THEN a ELSE BCat(BPush(a, Head(b).v, Head(b).n), Tail(b))

RECURSIVE BTake(_, _)
BTake(b, k) ==
    IF k <= 0 \/ b = <<>> THEN <<>>
    ELSE IF Head(b).n >= k THEN << [v |-> Head(b).v, n |-> k] >>
         ELSE <<Head(b)>> \o BTake(Tail(b), k - Head(b).n)

RECURSIVE BDrop(_, _)
BDrop(b, k) ==
    IF k <= 0 \/ b = <<>> THEN b
    ELSE IF Head(b).n > k THEN << [v |-> Head(b).v, n |-> Head(b).n - k] >> \o Tail(b)
         ELSE BDrop(Tail(b), k - Head(b).n)

\* Blob.slice(from, to) / subarray: bytes from..to-1, clamped to the length
BSlice(b, from, to) == BTake(BDrop(b, from), to - from)

\* a plain sequence of byte values as a byte string
RECURSIVE BLit(_)
BLit(s) == IF s = <<>> THEN <<>> ELSE BCat(<< [v |-> Head(s), n |-> 1] >>, BLit(Tail(s)))

\* the byte at 0-based index i (i < BLen(b))
RECURSIVE BAt(_, _)
BAt(b, i) == IF i < Head(b).n THEN Head(b).v ELSE BAt(Tail(b), i - Head(b).n)

\* the plain sequence of byte values of a (short) byte string
BExpand(b) == [i \in 1..BLen(b) |-> BAt(b, i - 1)]

----------------------------------------------------------------------------
(* JavaScript values that reach the registry: numbers, strings and         *)
(* undefined. A string is its sequence of character codes (below 2048),    *)
(* run-length encoded like a byte string. A number is an integer k or a    *)
(* half k + 1/2.                                                           *)

Num(k) == [t |-> "num", n |-> k, s |-> <<>>]
Half(k) == [t |-> "half", n |-> k, s |-> <<>>]
Str(x) == [t |-> "str", n |-> 0, s |-> x]
Undef  == [t |-> "undef", n |-> 0, s |-> <<>>]

\* "Unknown", the filename the receiver's catch block records
UnknownName == BLit(<<85, 110, 107, 110, 111, 119, 110>>)

----------------------------------------------------------------------------
(* Framing codec                                                           *)

CHUNK_SIZE == 65536
MaxMetadataLength == 10000

\* new DataView(lenBuf.buffer).setUint32(0, k): 4 bytes, big-endian. k is the
\* length of a string and stays below 2^31, so the reduction modulo 2^32 that
\* setUint32 applies leaves it unchanged.
SetUint32(k) ==
    << k \div 16777216, (k \div 65536) % 256, (k \div 256) % 256, k % 256 >>

\* new DataView(lenBytes.buffer).getUint32(0): unsigned, big-endian. The
\* modelled prefixes have a first byte below 128 (values below 2^31).
GetUint32(q) == ((q[1] * 256 + q[2]) * 256 + q[3]) * 256 + q[4]

\* decimal digits of a natural number, as character codes
RECURSIVE Digits(_)
Digits(k) == IF k < 10 THEN << 48 + k >> ELSE Append(Digits(k \div 10), 48 + (k % 10))

\* k copies of the pair a, b
RECURSIVE Pairs(_, _, _)
Pairs(a, b, k) == IF k <= 0 THEN <<>> ELSE BCat(BLit(<< a, b >>), Pairs(a, b, k - 1))

\* a JSON.stringify that leaves '"' and '\' unescaped
JsonEscapeNone(x) == x

\* JSON.stringify of a string: quotes, with '"' and '\' escaped
RECURSIVE JsonEscape(_)
JsonEscape(x) ==
    IF x = <<>> THEN <<>>
    ELSE BCat(IF Head(x).v \in {34, 92} THEN Pairs(92, Head(x).v, Head(x).n) ELSE << Head(x) >>,
              JsonEscape(Tail(x)))

JsonQuote(x) == BCat(BCat(BLit(<<34>>), JsonEscape(x)), BLit(<<34>>))

KeyFilename == BLit(<< 102, 105, 108, 101, 110, 97, 109, 101 >>)
KeySize     == BLit(<< 115, 105, 122, 101 >>)

\* the text of a sequence of pieces of text
RECURSIVE Text(_)
Text(pieces) == IF pieces = <<>> THEN <<>> ELSE BCat(Head(pieces), Text(Tail(pieces)))

\* JSON.stringify({ filename: file.name, size: file.size })
Stringify(name, size) ==
    Text(<< BLit(<<123>>), JsonQuote(KeyFilename), BLit(<<58>>), JsonQuote(name), BLit(<<44>>),
            JsonQuote(KeySize), BLit(<<58>>), BLit(Digits(size)), BLit(<<125>>) >>)

\* fromString(metadata): the UTF-8 bytes of the text; one byte for a code
\* below 128, two bytes for a code below 2048
RECURSIVE FromString(_)
FromString(text) ==
    IF text = <<>> THEN <<>>
    ELSE BCat(IF Head(text).v < 128 THEN << Head(text) >>
              ELSE Pairs(192 + (Head(text).v \div 64), 128 + (Head(text).v % 64), Head(text).n),
              FromString(Tail(text)))

\* new TextDecoder().decode(bytes): a malformed sequence decodes to U+FFFD
\* (bytes 0xE0 and above, which start longer sequences, are outside the
\* modelled inputs)
RECURSIVE Utf8Decode(_)
Utf8Decode(q) ==
    IF q = <<>> THEN <<>>
    ELSE IF q[1] < 128 THEN << q[1] >> \o Utf8Decode(Tail(q))
    ELSE IF q[1] >= 194 /\ q[1] < 224 /\ Len(q) >= 2 /\ q[2] >= 128 /\ q[2] < 192
         THEN << (q[1] - 192) * 64 + (q[2] - 128) >> \o Utf8Decode(Tail(Tail(q)))
    ELSE << 65533 >> \o Utf8Decode(Tail(q))

WS == {32, 9, 10, 13}

RECURSIVE SkipWS(_, _)
SkipWS(x, i) == IF i <= Len(x) /\ x[i] \in WS THEN SkipWS(x, i + 1) ELSE i

NoParse(i) == [ok |-> FALSE, pos |-> i, val |-> Undef]

Unescape(c) ==
    CASE c = 110 -> 10 [] c = 116 -> 9 [] c = 114 -> 13 [] c = 98 -> 8
      [] c = 102 -> 12 [] OTHER -> c

\* a JSON string, i just after the opening quote
RECURSIVE ScanString(_, _, _)
ScanString(x, i, acc) ==
    IF i > Len(x) THEN NoParse(i)
    ELSE IF x[i] = 34 THEN [ok |-> TRUE, pos |-> i + 1, val |-> Str(BLit(acc))]
    ELSE IF x[i] = 92
         THEN IF i + 1 <= Len(x) /\ x[i + 1] \in {34, 92, 47, 98, 102, 110, 114, 116}
              THEN ScanString(x, i + 2, Append(acc, Unescape(x[i + 1])))
              ELSE NoParse(i)
    ELSE IF x[i] < 32 THEN NoParse(i)
    ELSE ScanString(x, i + 1, Append(acc, x[i]))

IsDigit(c) == c >= 48 /\ c <= 57

RECURSIVE ScanDigits(_, _, _)
ScanDigits(x, i, acc) ==
    IF i <= Len(x) /\ IsDigit(x[i]) THEN ScanDigits(x, i + 1, acc * 10 + (x[i] - 48))
    ELSE [pos |-> i, n |-> acc]

\* a JSON number: -? (0 | [1-9][0-9]*) (.5)?; other fractions and exponents
\* are outside the modelled inputs
ScanNumber(x, i) ==
    LET neg == i <= Len(x) /\ x[i] = 45
        j   == IF neg THEN i + 1 ELSE i
    IN  IF j > Len(x) \/ ~IsDigit(x[j]) THEN NoParse(j)
        ELSE LET d == IF x[j] = 48 THEN [pos |-> j + 1, n |-> 0] ELSE ScanDigits(x, j, 0)
                 half == /\ d.pos + 1 <= Len(x) /\ x[d.pos] = 46 /\ x[d.pos + 1] = 53
                         /\ (d.pos + 2 > Len(x) \/ ~(IsDigit(x[d.pos + 2]) \/ x[d.pos + 2] \in {69, 101}))
             IN  IF half
                 THEN [ok |-> TRUE, pos |-> d.pos + 2,
                       val |-> IF neg THEN Half(0 - d.n - 1) ELSE Half(d.n)]
                 ELSE IF d.pos <= Len(x) /\ (IsDigit(x[d.pos]) \/ x[d.pos] \in {46, 69, 101})
                 THEN NoParse(d.pos)
                 ELSE [ok |-> TRUE, pos |-> d.pos, val |-> Num(IF neg THEN 0 - d.n ELSE d.n)]

\* a JSON string or number value at i
ScanValue(x, i) ==
    IF i > Len(x) THEN NoParse(i)
    ELSE IF x[i] = 34 THEN ScanString(x, i + 1, <<>>)
    ELSE ScanNumber(x, i)

\* the members of an object, i at the first key; obj collects the two
\* properties the receiver reads (a later duplicate key overrides)
RECURSIVE ScanMembers(_, _, _)
ScanMembers(x, i, obj) ==
    LET k0 == SkipWS(x, i)
    IN  IF k0 > Len(x) \/ x[k0] # 34 THEN [ok |-> FALSE, pos |-> k0, obj |-> obj]
        ELSE LET key == ScanString(x, k0 + 1, <<>>)
                 c   == SkipWS(x, key.pos)
             IN  IF ~key.ok \/ c > Len(x) \/ x[c] # 58 THEN [ok |-> FALSE, pos |-> c, obj |-> obj]
                 ELSE LET v   == ScanValue(x, SkipWS(x, c + 1))
                          e   == SkipWS(x, v.pos)
                          upd == IF key.val.s = KeyFilename THEN [obj EXCEPT !.filename = v.val]
                                 ELSE IF key.val.s = KeySize THEN [obj EXCEPT !.size = v.val]
                                 ELSE obj
                      IN  IF ~v.ok \/ e > Len(x) THEN [ok |-> FALSE, pos |-> e, obj |-> obj]
                          ELSE IF x[e] = 125 THEN [ok |-> TRUE, pos |-> e + 1, obj |-> upd]
                          ELSE IF x[e] = 44 THEN ScanMembers(x, e + 1, upd)
                          ELSE [ok |-> FALSE, pos |-> e, obj |-> obj]

NoProps == [filename |-> Undef, size |-> Undef]

\* JSON.parse(text) followed by the reads of .filename and .size:
\* ok = FALSE when JSON.parse throws SyntaxError
ParseText(x) ==
    LET i == SkipWS(x, 1)
    IN  IF i > Len(x) THEN [ok |-> FALSE, obj |-> NoProps]
        ELSE IF x[i] = 123
             THEN LET j == SkipWS(x, i + 1)
                      m == IF j <= Len(x) /\ x[j] = 125
                           THEN [ok |-> TRUE, pos |-> j + 1, obj |-> NoProps]
                           ELSE ScanMembers(x, i + 1, NoProps)
                  IN  [ok |-> m.ok /\ SkipWS(x, m.pos) > Len(x), obj |-> m.obj]
             ELSE LET v == ScanValue(x, i)
                  IN  [ok |-> v.ok /\ SkipWS(x, v.pos) > Len(x), obj |-> NoProps]

\* insignificant white space around the JSON text, removed run by run
RECURSIVE TrimWS(_)
TrimWS(b) ==
    IF b = <<>> THEN b
    ELSE IF Head(b).v \in WS THEN TrimWS(Tail(b))
    ELSE IF b[Len(b)].v \in WS THEN TrimWS(SubSeq(b, 1, Len(b) - 1))
    ELSE b

\* JSON.parse(new TextDecoder().decode(metaBytes))
ParseMetadata(metaBytes) ==
    LET p == ParseText(Utf8Decode(BExpand(TrimWS(metaBytes))))
    IN  IF p.ok THEN p ELSE [ok |-> FALSE, obj |-> NoProps]


----------------------------------------------------------------------------
(* Inputs                                                                  *)

MaxSessions == 2      \* sessions (crypto.randomUUID() calls) per behaviour
MaxClears == 1        \* clearTransfer calls per behaviour
MaxFaults == 1        \* rejected substrate calls (dial, write, close, OPFS) per behaviour
MaxReqs == 3          \* read requests of a session that are counted
BlockLen == 50000     \* a file's bytes change value every BlockLen bytes
MaxLeftovers == 2     \* spool files a previous lifetime left in the OPFS
NumNodes == 2         \* libp2p nodes the page creates per behaviour
MaxNodeChanges == 3   \* assignments to node.value per behaviour

Nodes == 1..NumNodes

\* the first k bytes of the pattern whose block j (from 0) holds value v + j
RECURSIVE Pattern(_, _)
Pattern(v, k) ==
    IF k <= 0 THEN <<>>
    ELSE << [v |-> v, n |-> Min(k, BlockLen)] >> \o Pattern(v + 1, k - BlockLen)

\* the File objects the user can send: name, size and content
\* (the second name holds a quote, a backslash and an e-acute; the last is
\* 'a' ten thousand times)
Files ==
    { [name |-> BLit(<<97>>),                  size |-> 0,                   seed |-> 1],
      [name |-> BLit(<<97, 34, 92, 233, 98>>), size |-> 1,                   seed |-> 2],
      [name |-> BLit(<<98>>),                  size |-> CHUNK_SIZE,          seed |-> 3],
      [name |-> BLit(<<97>>),                  size |-> 3 * CHUNK_SIZE + 17, seed |-> 5],
      [name |-> << [v |-> 97, n |-> MaxMetadataLength] >>, size |-> 1,       seed |-> 7] }

FileBytes(f) == Pattern(f.seed, f.size)

Peers == {"p1", "p2"}

\* what node.getConnections() can return: connections in provider order
ConnMenu ==
    { <<>>,
      << [remotePeer |-> "p1", remoteAddr |-> "relay1", webrtc |-> FALSE] >>,
      << [remotePeer |-> "p1", remoteAddr |-> "relay1", webrtc |-> FALSE],
         [remotePeer |-> "p1", remoteAddr |-> "rtc1", webrtc |-> TRUE] >>,
      << [remotePeer |-> "p2", remoteAddr |-> "rtc2", webrtc |-> TRUE],
         [remotePeer |-> "p1", remoteAddr |-> "relay1", webrtc |-> FALSE],
         [remotePeer |-> "p1", remoteAddr |-> "relay1b", webrtc |-> FALSE] >>,
      << [remotePeer |-> "p1", remoteAddr |-> "relay1", webrtc |-> FALSE],
         [remotePeer |-> "p2", remoteAddr |-> "relay2", webrtc |-> FALSE],
         [remotePeer |-> "p1", remoteAddr |-> "rtc1", webrtc |-> TRUE],
         [remotePeer |-> "p1", remoteAddr |-> "rtc1b", webrtc |-> TRUE] >> }

Spaces(k) == IF k <= 0 THEN <<>> ELSE << [v |-> 32, n |-> k] >>

\* header (length prefix + metadata text padded with blanks to padTo bytes)
WireHeader(text, padTo) ==
    LET q == FromString(text)
        k == IF padTo > BLen(q) THEN padTo ELSE BLen(q)
    IN  BCat(BCat(BLit(SetUint32(k)), q), Spaces(k - BLen(q)))

\* {"filename":"e","size":1.5}
TextHalfSize ==
    Text(<< BLit(<<123>>), JsonQuote(KeyFilename), BLit(<<58>>), JsonQuote(BLit(<<101>>)),
            BLit(<<44>>), JsonQuote(KeySize), BLit(<<58, 49, 46, 53, 125>>) >>)

\* {"size":-5}
TextNegSize == Text(<< BLit(<<123>>), JsonQuote(KeySize), BLit(<<58, 45, 53, 125>>) >>)

\* what a remote peer other than sendFile can put on an inbound stream
\* before ending it
ForeignWires ==
    { BLit(<<0, 0>>),                                                 \* ends inside the prefix
      BCat(BLit(SetUint32(MaxMetadataLength + 1)), Spaces(MaxMetadataLength + 1)),
      BCat(WireHeader(Stringify(BLit(<<99>>), 1), MaxMetadataLength), Pattern(7, 1)),
      WireHeader(BLit(<<123>>), 0),                                   \* {  : not JSON
      WireHeader(BLit(<<123, 125>>), 0),                              \* {} : no filename, no size
      WireHeader(TextNegSize, 0),
      BCat(WireHeader(TextHalfSize, 0), Pattern(11, 2)),
      BCat(WireHeader(Stringify(BLit(<<100>>), CHUNK_SIZE + 1), 0), Pattern(9, CHUNK_SIZE)) }


----------------------------------------------------------------------------
(* State                                                                   *)

VARIABLES
    node,               \* node.value: 0 is null, otherwise a libp2p node
    protocolRegistered, \* the flag of useFileTransfer
    handlers,           \* per node, the handlers its registrar holds for the protocol
    regs,               \* registerProtocol invocations: [node, pc]
    transfers,          \* the registry: transferId -> FileTransferProgress
    receivedFiles,      \* sequence of ReceivedFile
    nextId,             \* number of ids crypto.randomUUID() has handed out
    recv,               \* handleIncomingTransfer invocations, by transferId
    send,               \* sendFile invocations, by transferId
    opfs,               \* origin private file system: name -> committed bytes
    inbound,            \* number of inbound streams so far
    clears,             \* number of clearTransfer calls so far
    nodeChanges,        \* number of assignments to node.value so far
    faults,             \* number of substrate calls that have rejected so far
    cleanup,            \* removal of leftover spool files: [startup, todo, removed]
    relay,              \* the relay's code registry, its clock and its last response
    sw,                 \* the cleanup service worker and the page it serves
    lp                  \* useLibp2p: its reactive state, the nodes it made, their connections

vars == << node, protocolRegistered, handlers, regs, transfers, receivedFiles,
           nextId, recv, send, opfs, inbound, clears, nodeChanges, faults, cleanup,
           relay, sw, lp >>

regVars == << node, protocolRegistered, handlers, regs, nodeChanges >>

Put(f, k, v) == [x \in DOMAIN f \cup {k} |-> IF x = k THEN v ELSE f[x]]
Del(f, k) == [x \in DOMAIN f \ {k} |-> f[x]]
Nothing == [x \in {} |-> 0]

\* the outcomes of an awaited substrate call: TRUE it returns, FALSE it throws
Outcomes == IF faults < MaxFaults THEN BOOLEAN ELSE {TRUE}
Faults(ok) == IF ok THEN faults ELSE faults + 1

Absent == "absent"    \* no error property on the entry

\* crypto.randomUUID(): an id never handed out before
NewId == nextId + 1

Entry(id, filename, size, status, direction) ==
    [id |-> id, filename |-> filename, size |-> size, transferred |-> 0,
     status |-> status, direction |-> direction, error |-> Absent]

\* an error entry stored without the message
ErrorEntryNoMessage(id, msg) ==
    [id |-> id, filename |-> Str(UnknownName), size |-> Num(0), transferred |-> 0,
     status |-> "error", direction |-> "receive", error |-> Absent]

\* the entry the receiver's catch block stores
ErrorEntry(id, msg) ==
    [id |-> id, filename |-> Str(UnknownName), size |-> Num(0), transferred |-> 0,
     status |-> "error", direction |-> "receive", error |-> msg]

MemBlob(data)  == [kind |-> "mem", name |-> 0, data |-> data]
OpfsBlob(name) == [kind |-> "opfs", name |-> name, data |-> <<>>]

\* a Blob built from the chunks in reverse push order
RECURSIVE ConcatReversed(_)
ConcatReversed(chunks) ==
    IF chunks = <<>> THEN <<>> ELSE BCat(ConcatReversed(Tail(chunks)), Head(chunks))

\* new Blob(chunks): the chunks in push order
RECURSIVE Concat(_)
Concat(chunks) == IF chunks = <<>> THEN <<>> ELSE BCat(Head(chunks), Concat(Tail(chunks)))

\* the bytes a blob reads as (a File from the OPFS reads the stored file)
BlobBytes(b) ==
    IF b.kind = "mem" THEN b.data
    ELSE IF b.name \in DOMAIN opfs THEN opfs[b.name] ELSE <<>>


----------------------------------------------------------------------------
(* handleIncomingTransfer: one invocation per inbound stream and handler.  *)
(* Each action is the code from one await to the next.                     *)

\* the invocation up to its first await: transferId, byteStream(stream),
\* bytes.read({ bytes: 4 })
NewRecv(streamNo, src, wire) ==
    [pc |-> "readLen", stream |-> streamNo, src |-> src, wire |-> wire, buf |-> wire,
     want |-> 4, half |-> FALSE, reqs |-> 1, meta |-> NoProps, remaining |-> Undef,
     fileHandle |-> FALSE, writable |-> FALSE, chunks |-> <<>>, swap |-> <<>>,
     chunk |-> <<>>, closes |-> 0, failed |-> FALSE, err |-> Absent, fileIx |-> 0,
     fallback |-> FALSE]

\* a catch block that marks every entry of the registry as failed
RecvFailAll(id, r, tr, msg) ==
    /\ transfers' = [x \in DOMAIN tr \cup {id} |-> ErrorEntry(x, msg)]
    /\ recv' = Put(recv, id, [r EXCEPT !.pc = "done", !.failed = TRUE, !.err = msg])
    /\ UNCHANGED receivedFiles

\* the catch block (lines 160-171)
RecvFail(id, r, tr, msg) ==
    /\ transfers' = Put(tr, id, ErrorEntry(id, msg))
    /\ recv' = Put(recv, id, [r EXCEPT !.pc = "done", !.failed = TRUE, !.err = msg])
    /\ UNCHANGED receivedFiles

\* a completion that marks the session completed and publishes no file
RecvCompleteUnpublished(id, r, tr, blob) ==
    IF id \notin DOMAIN tr
    THEN RecvFail(id, r, tr, "TypeError")
    ELSE /\ transfers' = [tr EXCEPT ![id].status = "completed"]
         /\ receivedFiles' = receivedFiles
         /\ recv' = Put(recv, id, [r EXCEPT !.pc = "closeStream", !.closes = @ + 1,
                                            !.fileIx = Len(receivedFiles) + 1])

\* lines 148-158: mark completed, publish the file, call stream.close()
RecvComplete(id, r, tr, blob) ==
    IF id \notin DOMAIN tr
    THEN RecvFail(id, r, tr, "TypeError")
    ELSE /\ transfers' = [tr EXCEPT ![id].status = "completed"]
         /\ receivedFiles' = Append(receivedFiles, [filename |-> r.meta.filename, blob |-> blob])
         /\ recv' = Put(recv, id, [r EXCEPT !.pc = "closeStream", !.closes = @ + 1,
                                            !.fileIx = Len(receivedFiles) + 1])

\* remaining > 0
LoopCond(v) == (v.t = "num" /\ v.n > 0) \/ (v.t = "half" /\ v.n >= 0)

\* Math.min(remaining, CHUNK_SIZE) (line 120)
ReadSize(v) == IF v.n >= CHUNK_SIZE THEN Num(CHUNK_SIZE) ELSE v

\* the head of the payload loop (line 119) and, when it is left, the
\* finalize step up to its first await (lines 139-158)
RecvContinue(id, r, tr) ==
    IF LoopCond(r.remaining)
    THEN /\ recv' = Put(recv, id, [r EXCEPT !.pc = "readChunk",
                                            !.want = ReadSize(r.remaining).n,
                                            !.half = ReadSize(r.remaining).t = "half",
                                            !.reqs = Min(@ + 1, MaxReqs)])
         /\ transfers' = tr
         /\ UNCHANGED receivedFiles
    ELSE IF r.writable
    THEN /\ recv' = Put(recv, id, [r EXCEPT !.pc = "closeWritable"])
         /\ transfers' = tr
         /\ UNCHANGED receivedFiles
    ELSE RecvComplete(id, r, tr, MemBlob(Concat(r.chunks)))

\* lines 130-136: remaining -= chunk.length; progress update
RecvAfterChunk(id, r) ==
    LET left == r.remaining.n - BLen(r.chunk)
        r2   == [r EXCEPT !.remaining.n = left, !.chunk = <<>>]
        tr   == IF id \in DOMAIN transfers
                THEN [transfers EXCEPT ![id].transferred = r.meta.size.n - left]
                ELSE transfers
    IN  RecvContinue(id, r2, tr)

\* an inbound stream carrying wire reaches the node: every registered
\* handler is invoked with it
Inbound(src, wire) ==
    /\ node # 0
    /\ handlers[node] # {}
    /\ LET k == Cardinality(handlers[node])
       IN  /\ nextId + k <= MaxSessions
           /\ recv' = [x \in DOMAIN recv \cup ((nextId + 1)..(nextId + k)) |->
                          IF x \in DOMAIN recv THEN recv[x] ELSE NewRecv(inbound + 1, src, wire)]
           /\ nextId' = nextId + k
    /\ inbound' = inbound + 1

InboundFrom(wires) ==
    /\ \E w \in wires : Inbound(0, w)
    /\ UNCHANGED << lp, sw, cleanup, relay, regVars, transfers, receivedFiles, send, opfs, clears, faults >>

\* a length check that rejects a prefix equal to the maximum
RecvLenOffByOne(id) ==
    /\ id \in DOMAIN recv /\ recv[id].pc = "readLen"
    /\ LET r == recv[id] IN
       IF BLen(r.buf) < r.want
       THEN RecvFail(id, r, transfers, "unexpected end of input")
       ELSE LET len == GetUint32(BExpand(BTake(r.buf, 4)))
                r1  == [r EXCEPT !.buf = BDrop(@, 4)]
            IN  IF len >= MaxMetadataLength
                THEN RecvFail(id, r1, transfers, "Invalid metadata length")
                ELSE /\ recv' = Put(recv, id, [r1 EXCEPT !.pc = "readMeta", !.want = len,
                                                         !.reqs = Min(@ + 1, MaxReqs)])
                     /\ UNCHANGED << transfers, receivedFiles >>
    /\ UNCHANGED << lp, sw, cleanup, relay, regVars, nextId, send, opfs, inbound, clears, faults >>

\* the 4-byte read returns (lines 79-85), then bytes.read({ bytes: metadataLength })
RecvLen(id) ==
    /\ id \in DOMAIN recv /\ recv[id].pc = "readLen"
    /\ LET r == recv[id] IN
       IF BLen(r.buf) < r.want
       THEN RecvFail(id, r, transfers, "unexpected end of input")
       ELSE LET len == GetUint32(BExpand(BTake(r.buf, 4)))
                r1  == [r EXCEPT !.buf = BDrop(@, 4)]
            IN  IF len > MaxMetadataLength
                THEN RecvFail(id, r1, transfers, "Invalid metadata length")
                ELSE /\ recv' = Put(recv, id, [r1 EXCEPT !.pc = "readMeta", !.want = len,
                                                         !.reqs = Min(@ + 1, MaxReqs)])
                     /\ UNCHANGED << transfers, receivedFiles >>
    /\ UNCHANGED << lp, sw, cleanup, relay, regVars, nextId, send, opfs, inbound, clears, faults >>

\* the metadata read returns (lines 88-99), then navigator.storage.getDirectory()
RecvMeta(id) ==
    /\ id \in DOMAIN recv /\ recv[id].pc = "readMeta"
    /\ LET r == recv[id] IN
       IF BLen(r.buf) < r.want
       THEN RecvFail(id, r, transfers, "unexpected end of input")
       ELSE \E m \in {ParseMetadata(BTake(r.buf, r.want))} :
            LET r1 == [r EXCEPT !.buf = BDrop(@, r.want)]
            IN  IF ~m.ok
                THEN RecvFail(id, r1, transfers, "SyntaxError")
                ELSE /\ transfers' = Put(transfers, id,
                            Entry(id, m.obj.filename, m.obj.size, "transferring", "receive"))
                     /\ recv' = Put(recv, id, [r1 EXCEPT !.pc = "getDirectory",
                                                         !.meta = m.obj,
                                                         !.remaining = m.obj.size])
                     /\ UNCHANGED receivedFiles
    /\ UNCHANGED << lp, sw, cleanup, relay, regVars, nextId, send, opfs, inbound, clears, faults >>

\* getDirectory() returns (line 107); on a throw the inner catch falls back
\* to memory and the loop starts
RecvGetDirectory(id) ==
    /\ id \in DOMAIN recv /\ recv[id].pc = "getDirectory"
    /\ \E ok \in Outcomes :
         /\ faults' = Faults(ok)
         /\ IF ok
            THEN /\ recv' = Put(recv, id, [recv[id] EXCEPT !.pc = "getFileHandle"])
                 /\ UNCHANGED << transfers, receivedFiles >>
            ELSE RecvContinue(id, [recv[id] EXCEPT !.fallback = TRUE], transfers)
    /\ UNCHANGED << lp, sw, cleanup, relay, regVars, nextId, send, opfs, inbound, clears >>

\* a spool key that does not depend on the session
SpoolKeyShared(id) == 1

\* the name of a session's spool file, `bytehop-${transferId}` (line 108);
\* the constant prefix is left out, a key is the session id
SpoolKey(id) == id

\* getFileHandle('bytehop-<id>', { create: true }) returns (line 108)
RecvGetFileHandle(id) ==
    /\ id \in DOMAIN recv /\ recv[id].pc = "getFileHandle"
    /\ \E ok \in Outcomes :
         /\ faults' = Faults(ok)
         /\ IF ok
            THEN /\ recv' = Put(recv, id, [recv[id] EXCEPT !.pc = "createWritable",
                                                           !.fileHandle = TRUE])
                 /\ opfs' = IF SpoolKey(id) \in DOMAIN opfs THEN opfs
                            ELSE Put(opfs, SpoolKey(id), <<>>)
                 /\ UNCHANGED << transfers, receivedFiles >>
            ELSE /\ RecvContinue(id, [recv[id] EXCEPT !.fallback = TRUE], transfers)
                 /\ UNCHANGED opfs
    /\ UNCHANGED << lp, sw, cleanup, relay, regVars, nextId, send, inbound, clears >>

\* createWritable() returns (line 109)
RecvCreateWritable(id) ==
    /\ id \in DOMAIN recv /\ recv[id].pc = "createWritable"
    /\ \E ok \in Outcomes :
         /\ faults' = Faults(ok)
         /\ RecvContinue(id, [recv[id] EXCEPT !.writable = ok, !.fallback = ~ok], transfers)
    /\ UNCHANGED << lp, sw, cleanup, relay, regVars, nextId, send, opfs, inbound, clears >>

\* a chunk read that, on a stream that has ended, returns the bytes that
\* are left and ends the loop
RecvChunkLenient(id) ==
    /\ id \in DOMAIN recv /\ recv[id].pc = "readChunk"
    /\ LET r  == recv[id]
           rr == IF BLen(r.buf) < r.want
                 THEN [r EXCEPT !.want = BLen(r.buf), !.remaining = Num(BLen(r.buf))]
                 ELSE r
           c  == BTake(rr.buf, rr.want)
           r1 == [rr EXCEPT !.buf = BDrop(@, rr.want), !.chunk = c]
       IN  IF r.writable
           THEN /\ recv' = Put(recv, id, [r1 EXCEPT !.pc = "write"])
                /\ UNCHANGED << transfers, receivedFiles >>
           ELSE RecvAfterChunk(id, [r1 EXCEPT !.chunks = Append(@, c)])
    /\ UNCHANGED << lp, sw, cleanup, relay, regVars, nextId, send, opfs, inbound, clears, faults >>

\* a chunk read returns (lines 121-128). A request for want + 1/2 bytes is
\* outside what byteStream documents: it rejects, or returns want bytes
\* once more than want are there. chunks holds the chunks that are not
\* empty.
RecvChunk(id) ==
    /\ id \in DOMAIN recv /\ recv[id].pc = "readChunk"
    /\ LET r == recv[id] IN
       \/ /\ BLen(r.buf) < r.want + (IF r.half THEN 1 ELSE 0)
          /\ RecvFail(id, r, transfers, "unexpected end of input")
       \/ /\ r.half
          /\ RecvFail(id, r, transfers, "invalid read size")
       \/ /\ BLen(r.buf) >= r.want + (IF r.half THEN 1 ELSE 0)
          /\ LET c  == BTake(r.buf, r.want)
                 r1 == [r EXCEPT !.buf = BDrop(@, r.want), !.chunk = c]
             IN  IF r.writable
                 THEN /\ recv' = Put(recv, id, [r1 EXCEPT !.pc = "write"])
                      /\ UNCHANGED << transfers, receivedFiles >>
                 ELSE RecvAfterChunk(id, [r1 EXCEPT !.chunks = IF c = <<>> THEN @ ELSE Append(@, c)])
    /\ UNCHANGED << lp, sw, cleanup, relay, regVars, nextId, send, opfs, inbound, clears, faults >>

\* a write that, when the persistent target fails, switches the session
\* to the memory buffer
RecvWriteFallback(id) ==
    /\ id \in DOMAIN recv /\ recv[id].pc = "write"
    /\ \E ok \in Outcomes :
         /\ faults' = Faults(ok)
         /\ IF ok
            THEN RecvAfterChunk(id, [recv[id] EXCEPT !.swap = BCat(@, recv[id].chunk)])
            ELSE RecvAfterChunk(id, [recv[id] EXCEPT !.writable = FALSE,
                                                     !.chunks = Append(@, recv[id].chunk)])
    /\ UNCHANGED << lp, sw, cleanup, relay, regVars, nextId, send, opfs, inbound, clears >>

\* writable.write(chunk) returns (line 125)
RecvWrite(id) ==
    /\ id \in DOMAIN recv /\ recv[id].pc = "write"
    /\ \E ok \in Outcomes :
         /\ faults' = Faults(ok)
         /\ IF ok
            THEN RecvAfterChunk(id, [recv[id] EXCEPT !.swap = BCat(@, recv[id].chunk)])
            ELSE RecvFail(id, recv[id], transfers, "write failed")
    /\ UNCHANGED << lp, sw, cleanup, relay, regVars, nextId, send, opfs, inbound, clears >>

\* writable.close() returns (line 142): the written bytes become the file
RecvCloseWritable(id) ==
    /\ id \in DOMAIN recv /\ recv[id].pc = "closeWritable"
    /\ \E ok \in Outcomes :
         /\ faults' = Faults(ok)
         /\ IF ok
            THEN /\ opfs' = Put(opfs, SpoolKey(id), recv[id].swap)
                 /\ recv' = Put(recv, id, [recv[id] EXCEPT !.pc = "getFile"])
                 /\ UNCHANGED << transfers, receivedFiles >>
            ELSE /\ RecvFail(id, recv[id], transfers, "close failed")
                 /\ UNCHANGED opfs
    /\ UNCHANGED << lp, sw, cleanup, relay, regVars, nextId, send, inbound, clears >>

\* fileHandle.getFile() returns (line 143)
RecvGetFile(id) ==
    /\ id \in DOMAIN recv /\ recv[id].pc = "getFile"
    /\ \E ok \in Outcomes :
         /\ faults' = Faults(ok)
         /\ IF ok
            THEN RecvComplete(id, recv[id], transfers, OpfsBlob(SpoolKey(id)))
            ELSE RecvFail(id, recv[id], transfers, "getFile failed")
    /\ UNCHANGED << lp, sw, cleanup, relay, regVars, nextId, send, opfs, inbound, clears >>

\* stream.close() returns (line 158)
RecvCloseStream(id) ==
    /\ id \in DOMAIN recv /\ recv[id].pc = "closeStream"
    /\ \E ok \in Outcomes :
         /\ faults' = Faults(ok)
         /\ IF ok
            THEN /\ recv' = Put(recv, id, [recv[id] EXCEPT !.pc = "done"])
                 /\ UNCHANGED << transfers, receivedFiles >>
            ELSE RecvFail(id, recv[id], transfers, "stream close failed")
    /\ UNCHANGED << lp, sw, cleanup, relay, regVars, nextId, send, opfs, inbound, clears >>


----------------------------------------------------------------------------
(* sendFile: one invocation per call                                       *)

\* a catch block that rethrows without recording the error
SendFailUnrecorded(id, s, tr, msg) ==
    /\ transfers' = tr
    /\ send' = Put(send, id, [s EXCEPT !.pc = "done", !.outcome = "rejected", !.err = msg])

\* the catch block (lines 248-256): record the error if the entry is still
\* there, rethrow to the caller
SendFail(id, s, tr, msg) ==
    /\ transfers' = IF id \in DOMAIN tr
                    THEN [tr EXCEPT ![id].status = "error", ![id].error = msg]
                    ELSE tr
    /\ send' = Put(send, id, [s EXCEPT !.pc = "done", !.outcome = "rejected", !.err = msg])

\* fromString(JSON.stringify({ filename: file.name, size: file.size }))
MetaBytes(f) == FromString(Stringify(f.name, f.size))

\* lines 193-201: the connections to the peer; the first WebRTC one if any,
\* otherwise the first
PeerConns(conns, peer) == SelectSeq(conns, LAMBDA c : c.remotePeer = peer)

\* a choice that takes the first connection to the peer whatever its kind
PickConnFirst(peerConns) == peerConns[1]

PickConn(peerConns) ==
    LET rtc == SelectSeq(peerConns, LAMBDA c : c.webrtc)
    IN  IF rtc # <<>> THEN rtc[1] ELSE peerConns[1]

\* the head of the chunk loop (line 228): slice and read the next chunk, or
\* call stream.close() (line 243)
SendContinue(id, s, tr) ==
    /\ transfers' = tr
    /\ send' = Put(send, id,
          IF s.offset < s.file.size
          THEN [s EXCEPT !.pc = "arrayBuffer"]
          ELSE [s EXCEPT !.pc = "close", !.closes = @ + 1])

\* sendFile(file, peerId) up to its first await (lines 176-189)
SendStart(f, peer) ==
    /\ node # 0
    /\ nextId < MaxSessions
    /\ nextId' = NewId
    /\ transfers' = Put(transfers, NewId, Entry(NewId, Str(f.name), Num(f.size), "pending", "send"))
    /\ send' = Put(send, NewId,
          [pc |-> "import", file |-> f, peer |-> peer, addr |-> "", offset |-> 0,
           sent |-> <<>>, chunk |-> <<>>, dials |-> 0, closes |-> 0,
           outcome |-> "running", err |-> Absent, delivered |-> FALSE,
           looked |-> FALSE, conns |-> <<>>, stream |-> "none"])
    /\ UNCHANGED << lp, sw, cleanup, relay, regVars, receivedFiles, recv, opfs, inbound, clears, faults >>

\* the dynamic import returns; connection choice; dialProtocol (lines 189-215)
SendImport(id, conns) ==
    /\ id \in DOMAIN send /\ send[id].pc = "import"
    /\ \E ok \in Outcomes :
         /\ faults' = Faults(ok)
         /\ IF ~ok
            THEN SendFail(id, send[id], transfers, "import failed")
            ELSE   LET s   == [send[id] EXCEPT !.looked = TRUE, !.conns = conns]
                       pcs == PeerConns(conns, s.peer) IN
                   IF pcs = <<>>
                   THEN SendFail(id, s, transfers, "Not connected to peer")
                   ELSE /\ send' = Put(send, id, [s EXCEPT !.pc = "dial",
                                                           !.addr = PickConn(pcs).remoteAddr,
                                                           !.dials = @ + 1])
                        /\ UNCHANGED transfers
    /\ UNCHANGED << lp, sw, cleanup, relay, regVars, receivedFiles, nextId, recv, opfs, inbound, clears >>

\* the message of the error dialProtocol rejects with when
\* AbortSignal.timeout(30000) fires (line 214)
DialTimeout == "The operation timed out."

\* what dialProtocol can reject with: a dial error, or the deadline
DialErrors == {"dial failed", DialTimeout}

\* a dial whose stream is handed over although the deadline has passed
SendDialLate(id) ==
    /\ id \in DOMAIN send /\ send[id].pc = "dial"
    /\ LET s == send[id] IN
       \E ok \in Outcomes :
         /\ faults' = Faults(ok)
         /\ IF id \notin DOMAIN transfers THEN SendFail(id, s, transfers, "TypeError")
            ELSE /\ transfers' = [transfers EXCEPT ![id].status = "transferring"]
                 /\ send' = Put(send, id, [s EXCEPT !.pc = "writeLen", !.stream = "open",
                                                    !.err = IF ok THEN Absent ELSE DialTimeout])
    /\ UNCHANGED << lp, sw, cleanup, relay, regVars, receivedFiles, nextId, recv, opfs, inbound, clears >>

\* dialProtocol returns the stream, or rejects: no stream is handed to
\* sendFile (lines 213-217)
SendDial(id) ==
    /\ id \in DOMAIN send /\ send[id].pc = "dial"
    /\ LET s == send[id] IN
       \E ok \in Outcomes :
         /\ faults' = Faults(ok)
         /\ IF ~ok THEN \E msg \in DialErrors : SendFail(id, s, transfers, msg)
            ELSE IF id \notin DOMAIN transfers
            THEN SendFail(id, [s EXCEPT !.stream = "open"], transfers, "TypeError")
            ELSE /\ transfers' = [transfers EXCEPT ![id].status = "transferring"]
                 /\ send' = Put(send, id, [s EXCEPT !.pc = "writeLen", !.stream = "open"])
    /\ UNCHANGED << lp, sw, cleanup, relay, regVars, receivedFiles, nextId, recv, opfs, inbound, clears >>

\* bytes.write(lenBuf) returns (line 221)
SendWriteLen(id) ==
    /\ id \in DOMAIN send /\ send[id].pc = "writeLen"
    /\ LET s == send[id] IN
       \E ok \in Outcomes :
         /\ faults' = Faults(ok)
         /\ IF ~ok THEN SendFail(id, s, transfers, "write failed")
            ELSE /\ send' = Put(send, id,
                       [s EXCEPT !.pc = "writeMeta",
                                 !.sent = BCat(@, BLit(SetUint32(BLen(MetaBytes(s.file)))))])
                 /\ UNCHANGED transfers
    /\ UNCHANGED << lp, sw, cleanup, relay, regVars, receivedFiles, nextId, recv, opfs, inbound, clears >>

\* bytes.write(metaBytes) returns (line 222)
SendWriteMeta(id) ==
    /\ id \in DOMAIN send /\ send[id].pc = "writeMeta"
    /\ LET s == send[id] IN
       \E ok \in Outcomes :
         /\ faults' = Faults(ok)
         /\ IF ~ok THEN SendFail(id, s, transfers, "write failed")
            ELSE SendContinue(id, [s EXCEPT !.sent = BCat(@, MetaBytes(s.file))], transfers)
    /\ UNCHANGED << lp, sw, cleanup, relay, regVars, receivedFiles, nextId, recv, opfs, inbound, clears >>

\* a chunk read that reports the chunk as transferred before it is written
SendArrayBufferEager(id) ==
    /\ id \in DOMAIN send /\ send[id].pc = "arrayBuffer"
    /\ LET s == send[id] IN
       \E ok \in Outcomes :
         /\ faults' = Faults(ok)
         /\ IF ~ok THEN SendFail(id, s, transfers, "file not readable")
            ELSE LET c == BSlice(FileBytes(s.file), s.offset, s.offset + CHUNK_SIZE)
                 IN  /\ send' = Put(send, id, [s EXCEPT !.pc = "writeChunk", !.chunk = c])
                     /\ transfers' = IF id \in DOMAIN transfers
                                      THEN [transfers EXCEPT ![id].transferred = s.offset + BLen(c)]
                                      ELSE transfers
    /\ UNCHANGED << lp, sw, cleanup, relay, regVars, receivedFiles, nextId, recv, opfs, inbound, clears >>

\* file.slice(offset, offset + CHUNK_SIZE).arrayBuffer() returns (lines 229-233)
SendArrayBuffer(id) ==
    /\ id \in DOMAIN send /\ send[id].pc = "arrayBuffer"
    /\ LET s == send[id] IN
       \E ok \in Outcomes :
         /\ faults' = Faults(ok)
         /\ IF ~ok THEN SendFail(id, s, transfers, "file not readable")
            ELSE /\ send' = Put(send, id,
                       [s EXCEPT !.pc = "writeChunk",
                                 !.chunk = BSlice(FileBytes(s.file), s.offset, s.offset + CHUNK_SIZE)])
                 /\ UNCHANGED transfers
    /\ UNCHANGED << lp, sw, cleanup, relay, regVars, receivedFiles, nextId, recv, opfs, inbound, clears >>

\* a progress update that goes to the most recently created session
SendWriteChunkShared(id) ==
    /\ id \in DOMAIN send /\ send[id].pc = "writeChunk"
    /\ LET s == send[id] IN
       \E ok \in Outcomes :
         /\ faults' = Faults(ok)
         /\ IF ~ok THEN SendFail(id, s, transfers, "write failed")
            ELSE LET off == s.offset + BLen(s.chunk)
                     s2  == [s EXCEPT !.sent = BCat(@, s.chunk), !.offset = off, !.chunk = <<>>]
                     tr  == IF nextId \in DOMAIN transfers
                            THEN [transfers EXCEPT ![nextId].transferred = off]
                            ELSE transfers
                 IN  SendContinue(id, s2, tr)
    /\ UNCHANGED << lp, sw, cleanup, relay, regVars, receivedFiles, nextId, recv, opfs, inbound, clears >>

\* bytes.write(chunk) returns (lines 233-240)
SendWriteChunk(id) ==
    /\ id \in DOMAIN send /\ send[id].pc = "writeChunk"
    /\ LET s == send[id] IN
       \E ok \in Outcomes :
         /\ faults' = Faults(ok)
         /\ IF ~ok THEN SendFail(id, s, transfers, "write failed")
            ELSE LET off == s.offset + BLen(s.chunk)
                     s2  == [s EXCEPT !.sent = BCat(@, s.chunk), !.offset = off, !.chunk = <<>>]
                     tr  == IF id \in DOMAIN transfers
                            THEN [transfers EXCEPT ![id].transferred = off]
                            ELSE transfers
                 IN  SendContinue(id, s2, tr)
    /\ UNCHANGED << lp, sw, cleanup, relay, regVars, receivedFiles, nextId, recv, opfs, inbound, clears >>

\* stream.close() returns (lines 243-246)
SendClose(id) ==
    /\ id \in DOMAIN send /\ send[id].pc = "close"
    /\ LET s == send[id] IN
       \E ok \in Outcomes :
         /\ faults' = Faults(ok)
         /\ IF ~ok THEN SendFail(id, s, transfers, "stream close failed")
            ELSE IF id \notin DOMAIN transfers
            THEN SendFail(id, [s EXCEPT !.stream = "closed"], transfers, "TypeError")
            ELSE /\ transfers' = [transfers EXCEPT ![id].status = "completed"]
                 /\ send' = Put(send, id, [s EXCEPT !.pc = "done", !.outcome = "resolved",
                                                    !.stream = "closed"])
    /\ UNCHANGED << lp, sw, cleanup, relay, regVars, receivedFiles, nextId, recv, opfs, inbound, clears >>

\* the bytes a finished sendFile put on its stream arrive as an inbound
\* stream of a peer running the same code
Deliver(id) ==
    /\ id \in DOMAIN send /\ send[id].pc = "done"
    /\ ~send[id].delivered /\ send[id].sent # <<>>
    /\ Inbound(id, send[id].sent)
    /\ send' = [send EXCEPT ![id].delivered = TRUE]
    /\ UNCHANGED << lp, sw, cleanup, relay, regVars, transfers, receivedFiles, opfs, clears, faults >>

\* a clearTransfer that empties the registry
ClearTransferAll(id) ==
    /\ id \in DOMAIN transfers
    /\ clears < MaxClears
    /\ clears' = clears + 1
    /\ transfers' = Nothing
    /\ UNCHANGED << lp, sw, cleanup, relay, regVars, receivedFiles, nextId, recv, send, opfs, inbound,
                    faults >>

\* clearTransfer(id) (lines 273-275)
ClearTransfer(id) ==
    /\ id \in DOMAIN transfers
    /\ clears < MaxClears
    /\ clears' = clears + 1
    /\ transfers' = Del(transfers, id)
    /\ UNCHANGED << lp, sw, cleanup, relay, regVars, receivedFiles, nextId, recv, send, opfs, inbound, faults >>


----------------------------------------------------------------------------
(* registerProtocol, driven by the watcher on node.value                   *)

\* node.value is assigned v; the watcher (lines 35-39) calls
\* registerProtocol, which runs to its first await: libp2p.unhandle drops
\* the registrar's handler for the protocol and then awaits the peer store
SetNode(v) ==
    /\ v # node
    /\ nodeChanges < MaxNodeChanges
    /\ nodeChanges' = nodeChanges + 1
    /\ node' = v
    /\ IF v # 0 /\ ~protocolRegistered
       THEN /\ handlers' = [handlers EXCEPT ![v] = {}]
            /\ regs' = Put(regs, Cardinality(DOMAIN regs) + 1, [node |-> v, pc |-> "unhandle"])
       ELSE UNCHANGED << handlers, regs >>
    /\ UNCHANGED << lp, sw, cleanup, relay, protocolRegistered, transfers, receivedFiles, nextId, recv, send,
                    opfs, inbound, clears, faults >>

\* a registration that calls unhandle after handle instead of before it
RegHandleThenUnhandle(g) ==
    /\ g \in DOMAIN regs /\ regs[g].pc = "unhandle"
    /\ LET n == regs[g].node IN
       IF handlers[n] # {}
       THEN /\ regs' = [regs EXCEPT ![g].pc = "done"]
            /\ UNCHANGED handlers
       ELSE /\ regs' = [regs EXCEPT ![g].pc = "handle"]
            /\ handlers' = [handlers EXCEPT ![n] = {}]
    /\ UNCHANGED << lp, sw, cleanup, relay, node, protocolRegistered, nodeChanges, transfers, receivedFiles,
                    nextId, recv, send, opfs, inbound, clears, faults >>

\* unhandle has returned or thrown (line 47); libp2p.handle (line 49) throws
\* if the registrar already holds a handler for the protocol, otherwise
\* stores this invocation's handler and then awaits the peer store
RegHandle(g) ==
    /\ g \in DOMAIN regs /\ regs[g].pc = "unhandle"
    /\ LET n == regs[g].node IN
       IF handlers[n] # {}
       THEN /\ regs' = [regs EXCEPT ![g].pc = "done"]
            /\ UNCHANGED handlers
       ELSE /\ regs' = [regs EXCEPT ![g].pc = "handle"]
            /\ handlers' = [handlers EXCEPT ![n] = {g}]
    /\ UNCHANGED << lp, sw, cleanup, relay, node, protocolRegistered, nodeChanges, transfers, receivedFiles,
                    nextId, recv, send, opfs, inbound, clears, faults >>

\* handle has returned (lines 64-65) or thrown (lines 66-68)
RegDone(g) ==
    /\ g \in DOMAIN regs /\ regs[g].pc = "handle"
    /\ \E ok \in Outcomes :
         /\ faults' = Faults(ok)
         /\ protocolRegistered' = (IF ok THEN TRUE ELSE protocolRegistered)
         /\ regs' = [regs EXCEPT ![g].pc = "done"]
    /\ UNCHANGED << lp, sw, cleanup, relay, node, handlers, nodeChanges, transfers, receivedFiles,
                    nextId, recv, send, opfs, inbound, clears >>

----------------------------------------------------------------------------
(* Specifications                                                          *)

NoTransfers ==
    /\ transfers = Nothing
    /\ receivedFiles = <<>>
    /\ nextId = 0
    /\ recv = Nothing
    /\ send = Nothing
    /\ opfs = Nothing
    /\ inbound = 0
    /\ clears = 0
    /\ faults = 0

\* const codeRegistry = new Map() when src/relay/index.ts is loaded, at time
\* 0; created remembers every registration, resp is the last response
NoResponse == [seq |-> 0, method |-> "", code |-> 0, status |-> 0, address |-> ""]

RelayStarted ==
    [registry |-> Nothing, created |-> Nothing, now |-> 0, lastSweep |-> 0,
     ticks |-> 0, resp |-> NoResponse]

\* no callback of the worker has returned yet
NoRun ==
    [kind |-> "", pc |-> "", seen |-> -1, found |-> {}, listed |-> {}, visited |-> {},
     rejected |-> FALSE]

\* cleanup-sw.js has not been activated: cleanupTimer = null (line 9), no
\* interval, no callback in flight; the page is open and not controlled
SwNone ==
    [page |-> TRUE, controlled |-> FALSE, active |-> FALSE, timer |-> 0, live |-> {},
     runs |-> Nothing, last |-> NoRun]

\* useLibp2p() has just been called (lines 42-51): state.node, relayPeerId
\* null, connectedPeers empty; no initNode call, no node, no connection yet
LpNone ==
    [node |-> 0, relayPeerId |-> "", connectedPeers |-> <<>>, inits |-> Nothing,
     made |-> 0, running |-> {}, stopping |-> 0, conns |-> {}]

\* the page is up: nothing is left to remove
Started == [startup |-> "ready", todo |-> {}, removed |-> 0]

\* useFileTransfer(node) has just been called with node.value = null
InitFresh ==
    /\ node = 0
    /\ protocolRegistered = FALSE
    /\ handlers = [n \in Nodes |-> {}]
    /\ regs = Nothing
    /\ nodeChanges = 0
    /\ NoTransfers
    /\ cleanup = Started
    /\ relay = RelayStarted
    /\ sw = SwNone
    /\ lp = LpNone

\* the page has created its node and registerProtocol has returned
Init ==
    /\ node = 1
    /\ protocolRegistered = TRUE
    /\ handlers = [n \in Nodes |-> IF n = 1 THEN {1} ELSE {}]
    /\ regs = Put(Nothing, 1, [node |-> 1, pc |-> "done"])
    /\ nodeChanges = 1
    /\ NoTransfers
    /\ cleanup = Started
    /\ relay = RelayStarted
    /\ sw = SwNone
    /\ lp = LpNone

RecvStep(id) ==
    \/ RecvLen(id)
    \/ RecvMeta(id)
    \/ RecvGetDirectory(id)
    \/ RecvGetFileHandle(id)
    \/ RecvCreateWritable(id)
    \/ RecvChunk(id)
    \/ RecvWrite(id)
    \/ RecvCloseWritable(id)
    \/ RecvGetFile(id)
    \/ RecvCloseStream(id)

SendStep(id, menu) ==
    \/ \E conns \in menu : SendImport(id, conns)
    \/ SendDial(id)
    \/ SendWriteLen(id)
    \/ SendWriteMeta(id)
    \/ SendArrayBuffer(id)
    \/ SendWriteChunk(id)
    \/ SendClose(id)

\* no sendFile and no handler invocation is in flight
Idle ==
    /\ \A id \in DOMAIN send : send[id].pc = "done"
    /\ \A id \in DOMAIN recv : recv[id].pc = "done"

\* one transfer at a time, end to end: a sendFile call and then the stream
\* it wrote arriving at the handler, or a stream written by a foreign peer
Next ==
    \/ Idle /\ nextId = 0 /\ \E f \in Files, p \in Peers : SendStart(f, p)
    \/ \E id \in DOMAIN send : SendStep(id, ConnMenu)
    \/ Idle /\ \E id \in DOMAIN send : Deliver(id)
    \/ Idle /\ nextId = 0 /\ InboundFrom(ForeignWires)
    \/ \E id \in DOMAIN recv : RecvStep(id)
    \/ \E id \in DOMAIN transfers : ClearTransfer(id)

Spec == Init /\ [][Next]_vars

\* the inputs of the fair scenario: the files and foreign streams of Spec
\* whose header is short
FairFiles == { f \in Files : BLen(f.name) < MaxMetadataLength }
FairWires ==
    { BLit(<<0, 0>>),
      WireHeader(BLit(<<123>>), 0),
      WireHeader(BLit(<<123, 125>>), 0),
      WireHeader(TextNegSize, 0),
      BCat(WireHeader(TextHalfSize, 0), Pattern(11, 2)),
      BCat(WireHeader(Stringify(BLit(<<100>>), CHUNK_SIZE + 1), 0), Pattern(9, CHUNK_SIZE)) }

NextFair ==
    \/ Idle /\ nextId = 0 /\ \E f \in FairFiles, p \in Peers : SendStart(f, p)
    \/ \E id \in DOMAIN send : SendStep(id, ConnMenu)
    \/ Idle /\ \E id \in DOMAIN send : Deliver(id)
    \/ Idle /\ nextId = 0 /\ InboundFrom(FairWires)
    \/ \E id \in DOMAIN recv : RecvStep(id)
    \/ \E id \in DOMAIN transfers : ClearTransfer(id)

\* the awaits of a handler invocation other than the metadata read
RecvAwait(id) ==
    \/ RecvLen(id)
    \/ RecvGetDirectory(id)
    \/ RecvGetFileHandle(id)
    \/ RecvCreateWritable(id)
    \/ RecvChunk(id)
    \/ RecvWrite(id)
    \/ RecvCloseWritable(id)
    \/ RecvGetFile(id)
    \/ RecvCloseStream(id)

\* the invocation is waiting for bytes.read({ bytes: metadataLength })
AtReadMeta(id) == id \in DOMAIN recv /\ recv[id].pc = "readMeta"

\* one transfer at a time with every await of every invocation eventually
\* settling: a step of a sendFile call or of a handler invocation that
\* stays possible is taken.  RecvMeta(id) is possible exactly when
\* AtReadMeta(id) holds and every step of it ends AtReadMeta(id), so weak
\* fairness of RecvMeta(id) is []<>~AtReadMeta(id)
SpecFair ==
    /\ Init /\ [][NextFair]_vars
    /\ \A id \in 1..MaxSessions :
          /\ WF_vars(SendStep(id, ConnMenu))
          /\ WF_vars(RecvAwait(id))
          /\ []<>~AtReadMeta(id)

\* the inputs of the concurrent scenario: one one-byte file, a peer that
\* is connected or not, an inbound stream carrying a one-byte file
ConcFiles == { [name |-> BLit(<<97>>), size |-> 1, seed |-> 1] }
ConcConns == { <<>>, << [remotePeer |-> "p1", remoteAddr |-> "relay1", webrtc |-> FALSE] >> }
ConcWires == { BCat(WireHeader(Stringify(BLit(<<99>>), 1), 0), Pattern(7, 1)) }

\* any number of sessions in flight, their awaits interleaving
NextConc ==
    \/ \E f \in ConcFiles : SendStart(f, "p1")
    \/ \E id \in DOMAIN send : SendStep(id, ConcConns)
    \/ InboundFrom(ConcWires)
    \/ \E id \in DOMAIN recv : RecvStep(id)
    \/ \E id \in DOMAIN transfers : ClearTransfer(id)

SpecConc == Init /\ [][NextConc]_vars

\* what a peer sends in the registration scenario: a one-byte file
RegWires == { BCat(WireHeader(Stringify(BLit(<<99>>), 1), 0), Pattern(7, 1)) }

\* (re)registration of the handler while the node reference changes
NextReg ==
    \/ \E v \in 0..NumNodes : SetNode(v)
    \/ \E g \in DOMAIN regs : RegHandle(g)
    \/ \E g \in DOMAIN regs : RegDone(g)
    \/ inbound = 0 /\ InboundFrom(RegWires)
    \/ \E id \in DOMAIN recv : RecvStep(id)

SpecReg == InitFresh /\ [][NextReg]_vars

\* SpecReg with every await of registerProtocol eventually settling
SpecRegFair ==
    /\ InitFresh /\ [][NextReg]_vars
    /\ \A g \in 1..MaxNodeChanges : WF_vars(RegHandle(g)) /\ WF_vars(RegDone(g))


----------------------------------------------------------------------------
(* Startup recovery: a new process lifetime begins with the spool files a  *)
(* previous lifetime left in the OPFS; they are removed, then the page is   *)
(* mounted, creates its node (index.vue onMounted) and accepts streams.     *)

\* names of spool files of a previous lifetime (ids this lifetime never
\* hands out)
LeftoverNames == { -k : k \in 1..MaxLeftovers }

InitStart ==
    /\ node = 0
    /\ protocolRegistered = FALSE
    /\ handlers = [n \in Nodes |-> {}]
    /\ regs = Nothing
    /\ nodeChanges = 0
    /\ transfers = Nothing
    /\ receivedFiles = <<>>
    /\ nextId = 0
    /\ recv = Nothing
    /\ send = Nothing
    /\ \E S \in SUBSET LeftoverNames : opfs = [x \in S |-> Pattern(9, 1)]
    /\ inbound = 0
    /\ clears = 0
    /\ faults = 0
    /\ cleanup = [startup |-> "list", todo |-> {}, removed |-> 0]
    /\ relay = RelayStarted
    /\ sw = SwNone
    /\ lp = LpNone

\* the entries of the OPFS root whose name starts with bytehop-
StartupList ==
    /\ cleanup.startup = "list"
    /\ cleanup' = [cleanup EXCEPT !.startup = "remove", !.todo = DOMAIN opfs]
    /\ UNCHANGED << lp, sw, relay, regVars, transfers, receivedFiles, nextId, recv, send, opfs,
                    inbound, clears, faults >>

\* a removal that skips the file
StartupRemoveKeep(name) ==
    /\ cleanup.startup = "remove"
    /\ name \in cleanup.todo
    /\ cleanup' = [cleanup EXCEPT !.todo = @ \ {name}, !.removed = @ + 1]
    /\ UNCHANGED << lp, sw, relay, regVars, transfers, receivedFiles, nextId, recv, send, opfs,
                    inbound, clears, faults >>

\* one leftover file is removed
StartupRemove(name) ==
    /\ cleanup.startup = "remove"
    /\ name \in cleanup.todo
    /\ opfs' = Del(opfs, name)
    /\ cleanup' = [cleanup EXCEPT !.todo = @ \ {name}, !.removed = @ + 1]
    /\ UNCHANGED << lp, sw, relay, regVars, transfers, receivedFiles, nextId, recv, send,
                    inbound, clears, faults >>

\* every listed file has been handled: the page is mounted
StartupDone ==
    /\ cleanup.startup = "remove"
    /\ cleanup.todo = {}
    /\ cleanup' = [cleanup EXCEPT !.startup = "ready"]
    /\ UNCHANGED << lp, sw, relay, regVars, transfers, receivedFiles, nextId, recv, send, opfs,
                    inbound, clears, faults >>

StartWires == { BCat(WireHeader(Stringify(BLit(<<99>>), 1), 0), Pattern(7, 1)) }

NextStart ==
    \/ StartupList
    \/ \E name \in LeftoverNames : StartupRemove(name)
    \/ StartupDone
    \/ cleanup.startup = "ready" /\ nodeChanges = 0 /\ SetNode(1)
    \/ \E g \in DOMAIN regs : RegHandle(g)
    \/ \E g \in DOMAIN regs : RegDone(g)
    \/ inbound = 0 /\ InboundFrom(StartWires)
    \/ \E id \in DOMAIN recv : RecvStep(id)

SpecStart == InitStart /\ [][NextStart]_vars

----------------------------------------------------------------------------
(* The relay's share-code registry (src/relay/index.ts): POST /code, GET   *)
(* /code and the periodic sweep, with Date.now() in milliseconds.          *)

CODE_EXPIRY_MS == 300000
SweepInterval == 60000
CodeBase == 100000

NumCodes == 2         \* codes Math.random() can produce
MaxTicks == 3         \* advances of the clock per behaviour
MaxRequests == 3      \* HTTP requests per behaviour

\* the codes generateCode can return
CodePool == { CodeBase + k : k \in 0..(NumCodes - 1) }

Addresses == {"addrA", "addrB"}

\* amounts by which the clock advances between events
TimeSteps == {1, SweepInterval, CODE_EXPIRY_MS - 1}

appVars == << lp, sw, cleanup, regVars, transfers, receivedFiles, nextId, recv, send, opfs,
              inbound, clears, faults >>

\* now - entry.createdAt > CODE_EXPIRY_MS
Expired(entry, now) == now - entry.createdAt > CODE_EXPIRY_MS

\* time passes
RelayTick(d) ==
    /\ relay.ticks < MaxTicks
    /\ relay' = [relay EXCEPT !.now = @ + d, !.ticks = @ + 1]
    /\ UNCHANGED appVars

\* a sweep that compares an entry's age with the sweep interval
RelaySweepEarly ==
    /\ relay.now - relay.lastSweep >= SweepInterval
    /\ relay' = [relay EXCEPT
          !.registry = [c \in { x \in DOMAIN relay.registry :
                                  relay.now - relay.registry[x].createdAt <= SweepInterval } |->
                            relay.registry[c]],
          !.lastSweep = relay.now]
    /\ UNCHANGED appVars

\* the setInterval callback (lines 38-45); a timer never fires early
RelaySweep ==
    /\ relay.now - relay.lastSweep >= SweepInterval
    /\ relay' = [relay EXCEPT
          !.registry = [c \in { x \in DOMAIN relay.registry :
                                  ~Expired(relay.registry[x], relay.now) } |->
                            relay.registry[c]],
          !.lastSweep = relay.now]
    /\ UNCHANGED appVars

\* a registration under any code of the pool, taken or not
RelayPostAnyCode(address) ==
    /\ relay.resp.seq < MaxRequests
    /\ \E code \in CodePool :
         LET entry == [address |-> address, createdAt |-> relay.now] IN
         relay' = [relay EXCEPT
            !.registry = Put(@, code, entry),
            !.created = Put(@, code, entry),
            !.resp = [seq |-> @.seq + 1, method |-> "POST", code |-> code,
                      status |-> 200, address |-> ""]]
    /\ UNCHANGED appVars

\* POST /code with a body that holds an address (lines 64-83)
RelayPost(address) ==
    /\ relay.resp.seq < MaxRequests
    /\ \E code \in CodePool \ DOMAIN relay.registry :
         LET entry == [address |-> address, createdAt |-> relay.now] IN
         relay' = [relay EXCEPT
            !.registry = Put(@, code, entry),
            !.created = Put(@, code, entry),
            !.resp = [seq |-> @.seq + 1, method |-> "POST", code |-> code,
                      status |-> 200, address |-> ""]]
    /\ UNCHANGED appVars

\* a lookup that does not check the entry's age
RelayGetNoExpiry(code) ==
    /\ relay.resp.seq < MaxRequests
    /\ LET answer(status, address) ==
               [seq |-> relay.resp.seq + 1, method |-> "GET", code |-> code,
                status |-> status, address |-> address]
       IN  IF code \notin DOMAIN relay.registry
           THEN relay' = [relay EXCEPT !.resp = answer(404, "")]
           ELSE relay' = [relay EXCEPT !.resp = answer(200, relay.registry[code].address)]
    /\ UNCHANGED appVars

\* GET /code?code=<code> (lines 89-116)
RelayGet(code) ==
    /\ relay.resp.seq < MaxRequests
    /\ LET answer(status, address) ==
               [seq |-> relay.resp.seq + 1, method |-> "GET", code |-> code,
                status |-> status, address |-> address]
       IN  IF code \notin DOMAIN relay.registry
           THEN relay' = [relay EXCEPT !.resp = answer(404, "")]
           ELSE IF Expired(relay.registry[code], relay.now)
           THEN relay' = [relay EXCEPT !.registry = Del(@, code), !.resp = answer(404, "")]
           ELSE relay' = [relay EXCEPT !.resp = answer(200, relay.registry[code].address)]
    /\ UNCHANGED appVars

NextRelay ==
    \/ \E d \in TimeSteps : RelayTick(d)
    \/ RelaySweep
    \/ \E address \in Addresses : RelayPost(address)
    \/ \E code \in CodePool : RelayGet(code)

SpecRelay == InitFresh /\ [][NextRelay]_vars

\* request bodies of a POST /code that is not answered 200: text that is not
\* JSON, JSON without an address (or with a falsy one), and JSON whose
\* address is a number
RejectedBodies == {"not json", "no address", "number address"}

\* POST /code with such a body (lines 64-88).  JSON.parse throws for the
\* first, the second is answered at lines 71-75; for the third the entry is
\* set (lines 77-78) and address.substring (line 80) then throws a
\* TypeError, which the catch answers with 400 (lines 84-87)
RelayPostRejected(body) ==
    /\ relay.resp.seq < MaxRequests
    /\ LET answer == [seq |-> relay.resp.seq + 1, method |-> "POST", code |-> 0,
                      status |-> 400, address |-> ""]
       IN  IF body = "number address"
           THEN \E code \in CodePool \ DOMAIN relay.registry :
                   LET entry == [address |-> "123", createdAt |-> relay.now] IN
                   relay' = [relay EXCEPT !.registry = Put(@, code, entry),
                                          !.created = Put(@, code, entry),
                                          !.resp = answer]
           ELSE relay' = [relay EXCEPT !.resp = answer]
    /\ UNCHANGED appVars

\* GET /code without a code parameter, or with an empty one (lines 91-96)
RelayGetNoCode ==
    /\ relay.resp.seq < MaxRequests
    /\ relay' = [relay EXCEPT !.resp = [seq |-> @.seq + 1, method |-> "GET", code |-> 0,
                                        status |-> 400, address |-> ""]]
    /\ UNCHANGED appVars

\* the methods other than GET and POST a client can use
OtherMethods == {"OPTIONS", "PUT", "DELETE"}

\* a request to /code with another method: OPTIONS is answered 204 before
\* the path is looked at (lines 55-59), the rest 405 (lines 117-120)
RelayOther(method) ==
    /\ relay.resp.seq < MaxRequests
    /\ relay' = [relay EXCEPT !.resp = [seq |-> @.seq + 1, method |-> method, code |-> 0,
                                        status |-> IF method = "OPTIONS" THEN 204 ELSE 405,
                                        address |-> ""]]
    /\ UNCHANGED appVars

\* the code registry with every kind of request to /code
NextRelayAll ==
    \/ \E d \in TimeSteps : RelayTick(d)
    \/ RelaySweep
    \/ \E address \in Addresses : RelayPost(address)
    \/ \E code \in CodePool : RelayGet(code)
    \/ \E body \in RejectedBodies : RelayPostRejected(body)
    \/ RelayGetNoCode
    \/ \E method \in OtherMethods : RelayOther(method)

SpecRelayAll == InitFresh /\ [][NextRelayAll]_vars

----------------------------------------------------------------------------
(* The cleanup service worker (src/public/cleanup-sw.js) next to the page. *)
(* An OPFS entry named k stands for the file 'bytehop-<k>'; the model      *)
(* holds no entry of another name. A callback that has not returned is a   *)
(* run: [kind, pc, seen, found, listed, visited, rejected]; found is the   *)
(* content of the OPFS when the check was made.                            *)

MaxTimers == 2        \* intervals alive at once
MaxChecks == 2        \* callbacks in flight at once

\* what a peer sends while the worker is watched: a one-byte file
SwWires == { BCat(WireHeader(Stringify(BLit(<<99>>), 1), 0), Pattern(7, 1)) }

pageVars == << regVars, transfers, receivedFiles, recv, send >>

\* the smallest positive number not in S
Fresh(S) == CHOOSE k \in 1..(Cardinality(S) + 1) : k \notin S

NewRun(kind) ==
    [kind |-> kind, pc |-> "matchAll", seen |-> -1, found |-> {}, listed |-> {},
     visited |-> {}, rejected |-> FALSE]

\* the window clients the worker controls: a page loaded before the worker
\* was activated is not among them
WindowClients == IF sw.page /\ sw.controlled THEN 1 ELSE 0

\* a file with an open writable stream is locked: whether removeEntry
\* rejects for it depends on the browser
Locked(name) ==
    /\ name \in DOMAIN recv
    /\ recv[name].writable
    /\ recv[name].pc \in {"readChunk", "write", "closeWritable"}

\* the page is loaded: index.vue is mounted, creates its node and
\* registerProtocol returns
SwOpenPage ==
    /\ ~sw.page
    /\ sw' = [sw EXCEPT !.page = TRUE, !.controlled = sw.active]
    /\ node' = 1
    /\ protocolRegistered' = TRUE
    /\ handlers' = [n \in Nodes |-> IF n = 1 THEN {1} ELSE {}]
    /\ regs' = Put(Nothing, 1, [node |-> 1, pc |-> "done"])
    /\ nodeChanges' = 1
    /\ UNCHANGED << lp, cleanup, relay, transfers, receivedFiles, nextId, recv, send, opfs,
                    inbound, clears, faults >>

\* the tab is closed: the state of useFileTransfer (lines 30-32) and every
\* invocation in flight go with it, the OPFS stays
SwClosePage ==
    /\ sw.page
    /\ sw' = [sw EXCEPT !.page = FALSE, !.controlled = FALSE]
    /\ node' = 0
    /\ protocolRegistered' = FALSE
    /\ handlers' = [n \in Nodes |-> {}]
    /\ regs' = Nothing
    /\ nodeChanges' = 0
    /\ transfers' = Nothing
    /\ receivedFiles' = <<>>
    /\ recv' = Nothing
    /\ send' = Nothing
    /\ UNCHANGED << lp, cleanup, relay, nextId, opfs, inbound, clears, faults >>

\* the activate listener (lines 45-53) up to its await of matchAll
SwActivate ==
    /\ ~sw.active
    /\ sw' = [sw EXCEPT !.active = TRUE,
                        !.runs = Put(@, Fresh(DOMAIN @), NewRun("activate"))]
    /\ UNCHANGED << lp, cleanup, relay, pageVars, nextId, opfs, inbound, clears, faults >>

\* the message listener (lines 26-42) for 'bytehop-session-active' when
\* cleanupTimer is null; with a timer set the listener changes nothing
SwMessage ==
    /\ sw.active /\ sw.page
    /\ sw.timer = 0
    /\ Cardinality(sw.live) < MaxTimers
    /\ LET t == Fresh(sw.live)
       IN  sw' = [sw EXCEPT !.timer = t, !.live = @ \cup {t}]
    /\ UNCHANGED << lp, cleanup, relay, pageVars, nextId, opfs, inbound, clears, faults >>

\* a live interval fires: its callback (lines 30-39) runs to the await of
\* matchAll
SwInterval ==
    /\ sw.live # {}
    /\ Cardinality(DOMAIN sw.runs) < MaxChecks
    /\ sw' = [sw EXCEPT !.runs = Put(@, Fresh(DOMAIN @), NewRun("interval"))]
    /\ UNCHANGED << lp, cleanup, relay, pageVars, nextId, opfs, inbound, clears, faults >>

\* the callback returns without entering cleanupOPFS
SwSkip(r, run) ==
    sw' = [sw EXCEPT !.runs = Del(@, r), !.last = run]

\* a callback that forgets the interval: cleanupTimer = null without
\* clearInterval
SwReturnNoClear(r, run) ==
    IF run.kind = "interval"
    THEN sw' = [sw EXCEPT !.runs = Del(@, r), !.last = run, !.timer = 0]
    ELSE sw' = [sw EXCEPT !.runs = Del(@, r), !.last = run]

\* cleanupOPFS has returned (its catch swallows a rejection); the interval
\* callback goes on to clearInterval(cleanupTimer); cleanupTimer = null
\* (lines 36-37), the activate listener is finished
SwReturn(r, run) ==
    IF run.kind = "interval"
    THEN sw' = [sw EXCEPT !.runs = Del(@, r), !.last = run,
                          !.live = @ \ {sw.timer}, !.timer = 0]
    ELSE sw' = [sw EXCEPT !.runs = Del(@, r), !.last = run]

\* clients.matchAll({ type: 'window' }) returns (lines 31-32, 47-48); with
\* no client the run enters cleanupOPFS and awaits getDirectory()
SwMatchAll(r) ==
    /\ r \in DOMAIN sw.runs /\ sw.runs[r].pc = "matchAll"
    /\ IF WindowClients = 0
       THEN sw' = [sw EXCEPT !.runs[r].seen = 0, !.runs[r].pc = "getDirectory",
                             !.runs[r].found = DOMAIN opfs]
       ELSE SwSkip(r, [sw.runs[r] EXCEPT !.seen = WindowClients, !.pc = "done"])
    /\ UNCHANGED << lp, cleanup, relay, pageVars, nextId, opfs, inbound, clears, faults >>

\* navigator.storage.getDirectory() returns (line 13); root.entries() starts
SwGetDirectory(r) ==
    /\ r \in DOMAIN sw.runs /\ sw.runs[r].pc = "getDirectory"
    /\ \E ok \in Outcomes :
         /\ faults' = Faults(ok)
         /\ IF ok
            THEN sw' = [sw EXCEPT !.runs[r].pc = "entries", !.runs[r].listed = DOMAIN opfs]
            ELSE SwReturn(r, [sw.runs[r] EXCEPT !.pc = "done", !.rejected = TRUE])
    /\ UNCHANGED << lp, cleanup, relay, pageVars, nextId, opfs, inbound, clears >>

\* the iterator yields an entry not yet visited and root.removeEntry(name)
\* returns (lines 14-18); a rejection ends cleanupOPFS in its catch
SwRemoveEntry(r, name) ==
    /\ r \in DOMAIN sw.runs /\ sw.runs[r].pc = "entries"
    /\ name \in DOMAIN opfs \ sw.runs[r].visited
    /\ \E ok \in (IF Locked(name) THEN BOOLEAN ELSE Outcomes) :
         /\ faults' = IF Locked(name) THEN faults ELSE Faults(ok)
         /\ IF ok
            THEN /\ opfs' = Del(opfs, name)
                 /\ sw' = [sw EXCEPT !.runs[r].visited = @ \cup {name}]
            ELSE /\ SwReturn(r, [sw.runs[r] EXCEPT !.pc = "done", !.rejected = TRUE,
                                                   !.visited = @ \cup {name}])
                 /\ UNCHANGED opfs
    /\ UNCHANGED << lp, cleanup, relay, pageVars, nextId, inbound, clears >>

\* the iterator is exhausted: every entry that was there when it started
\* has been visited (whether it also yields an entry created since is up
\* to the browser)
SwEntriesEnd(r) ==
    /\ r \in DOMAIN sw.runs /\ sw.runs[r].pc = "entries"
    /\ (sw.runs[r].listed \cap DOMAIN opfs) \subseteq sw.runs[r].visited
    /\ SwReturn(r, [sw.runs[r] EXCEPT !.pc = "done"])
    /\ UNCHANGED << lp, cleanup, relay, pageVars, nextId, opfs, inbound, clears, faults >>

SwStep(r) ==
    \/ SwMatchAll(r)
    \/ SwGetDirectory(r)
    \/ \E name \in DOMAIN opfs : SwRemoveEntry(r, name)
    \/ SwEntriesEnd(r)

\* the page receiving one stream while the worker checks, one callback at
\* a time
NextSw ==
    \/ SwOpenPage
    \/ SwClosePage
    \/ sw.runs = Nothing /\ SwActivate
    \/ SwMessage
    \/ sw.runs = Nothing /\ SwInterval
    \/ \E r \in DOMAIN sw.runs : SwStep(r)
    \/ inbound = 0 /\ InboundFrom(SwWires)
    \/ \E id \in DOMAIN recv : RecvStep(id)

SpecSw == Init /\ [][NextSw]_vars

\* the worker with its callbacks overlapping: an interval fires, and the
\* worker is activated, while earlier callbacks are still awaiting; the
\* page's transfer advances between the checks
NextSwOverlap ==
    \/ SwOpenPage
    \/ SwClosePage
    \/ SwActivate
    \/ SwMessage
    \/ SwInterval
    \/ \E r \in DOMAIN sw.runs : SwStep(r)
    \/ sw.runs = Nothing /\ inbound = 0 /\ InboundFrom(SwWires)
    \/ sw.runs = Nothing /\ \E id \in DOMAIN recv : RecvStep(id)

SpecSwOverlap == Init /\ [][NextSwOverlap]_vars

----------------------------------------------------------------------------
(* useLibp2p: initNode, connectToRelay, the connection events, stopNode     *)

MaxInits == 2         \* initNode calls that get past the guard, per behaviour
MaxConns == 2         \* connections open to one peer at a time

\* the relay and one other peer
RelayPeer == "relay"
LpPeers == {RelayPeer, "p1"}

\* state.connectedPeers.includes(peerId)
Includes(list, p) == \E i \in 1..Len(list) : list[i] = p

\* state.connectedPeers.filter(x => x !== p)
RECURSIVE Without(_, _)
Without(list, p) ==
    IF list = <<>> THEN <<>>
    ELSE IF Head(list) = p THEN Without(Tail(list), p)
    ELSE << Head(list) >> \o Without(Tail(list), p)

\* initNode() is called (lines 54-55): with state.node set it returns at once,
\* otherwise it runs to the await of createLibp2p (line 58)
InitNode ==
    /\ lp.node = 0
    /\ Cardinality(DOMAIN lp.inits) < MaxInits
    /\ lp' = [lp EXCEPT !.inits = Put(@, Cardinality(DOMAIN @) + 1,
                                      [pc |-> "create", node |-> 0, dialOn |-> 0])]
    /\ UNCHANGED << sw, cleanup, relay, pageVars, nextId, opfs, inbound, clears, faults >>

\* createLibp2p returns a new node (lines 58-84) and node.start() is called
\* (line 86), or it rejects and the catch rethrows (lines 118-122)
InitCreated(i) ==
    /\ i \in DOMAIN lp.inits /\ lp.inits[i].pc = "create"
    /\ \E ok \in Outcomes :
         /\ faults' = Faults(ok)
         /\ lp' = IF ok
                  THEN [lp EXCEPT !.made = @ + 1,
                                  !.inits[i] = [pc |-> "start", node |-> lp.made + 1, dialOn |-> 0]]
                  ELSE [lp EXCEPT !.inits[i].pc = "done"]
    /\ UNCHANGED << sw, cleanup, relay, pageVars, nextId, opfs, inbound, clears >>

\* node.start() returns: the listeners are added, state.node = node (lines
\* 89-111) and connectToRelay runs to its dial on state.node (lines 139-146);
\* or start rejects
InitStarted(i) ==
    /\ i \in DOMAIN lp.inits /\ lp.inits[i].pc = "start"
    /\ \E ok \in Outcomes :
         /\ faults' = Faults(ok)
         /\ lp' = IF ok
                  THEN [lp EXCEPT !.node = lp.inits[i].node,
                                  !.running = @ \cup {lp.inits[i].node},
                                  !.inits[i].pc = "dial",
                                  !.inits[i].dialOn = lp.inits[i].node]
                  ELSE [lp EXCEPT !.inits[i].pc = "done"]
    /\ UNCHANGED << sw, cleanup, relay, pageVars, nextId, opfs, inbound, clears >>

\* the dial of the relay returns a connection (lines 148-150): relayPeerId
\* is set and the relay is filtered out of connectedPeers; or it rejects
\* (lines 157-160)
RelayDialed(i) ==
    /\ i \in DOMAIN lp.inits /\ lp.inits[i].pc = "dial"
    /\ \E ok \in Outcomes :
         /\ faults' = Faults(ok)
         /\ ok => \E c \in lp.conns : c.node = lp.inits[i].dialOn /\ c.peer = RelayPeer
         /\ lp' = IF ok
                  THEN [lp EXCEPT !.relayPeerId = RelayPeer,
                                  !.connectedPeers = Without(@, RelayPeer),
                                  !.inits[i].pc = "done"]
                  ELSE [lp EXCEPT !.inits[i].pc = "done"]
    /\ UNCHANGED << sw, cleanup, relay, pageVars, nextId, opfs, inbound, clears >>

\* a started node opens its k-th connection to peer p (one connection to
\* the relay): the connection:open listener runs (lines 89-98)
ConnOpen(n, p, k) ==
    /\ n \in lp.running
    /\ \A c \in lp.conns : c.peer # p \/ c.k # k
    /\ p = RelayPeer => k = 1
    /\ lp' = [lp EXCEPT !.conns = @ \cup {[node |-> n, peer |-> p, k |-> k]},
                        !.connectedPeers =
                            IF p # lp.relayPeerId /\ ~Includes(@, p)
                            THEN Append(@, p) ELSE @]
    /\ UNCHANGED << sw, cleanup, relay, pageVars, nextId, opfs, inbound, clears, faults >>

\* a connection closes: the connection:close listener runs (lines 100-103)
ConnClose(c) ==
    /\ c \in lp.conns
    /\ lp' = [lp EXCEPT !.conns = @ \ {c},
                        !.connectedPeers = Without(@, c.peer)]
    /\ UNCHANGED << sw, cleanup, relay, pageVars, nextId, opfs, inbound, clears, faults >>

\* stopNode() is called with state.node set (lines 204-206) and awaits
\* node.stop(), which stops the node; its connections then close one by one
StopNode ==
    /\ lp.node # 0 /\ lp.stopping = 0
    /\ lp.node \in lp.running
    /\ lp' = [lp EXCEPT !.stopping = lp.node, !.running = @ \ {lp.node}]
    /\ UNCHANGED << sw, cleanup, relay, pageVars, nextId, opfs, inbound, clears, faults >>

\* node.stop() returns once the node's connections are closed; the state
\* is reset (lines 207-212), relayPeerId is not
StopDone ==
    /\ lp.stopping # 0
    /\ \A c \in lp.conns : c.node # lp.stopping
    /\ lp' = [lp EXCEPT !.stopping = 0, !.node = 0, !.connectedPeers = <<>>]
    /\ UNCHANGED << sw, cleanup, relay, pageVars, nextId, opfs, inbound, clears, faults >>

NextLp ==
    \/ InitNode
    \/ \E i \in DOMAIN lp.inits : InitCreated(i)
    \/ \E i \in DOMAIN lp.inits : InitStarted(i)
    \/ \E i \in DOMAIN lp.inits : RelayDialed(i)
    \/ \E n \in lp.running, p \in LpPeers, k \in 1..MaxConns : ConnOpen(n, p, k)
    \/ \E c \in lp.conns : ConnClose(c)
    \/ StopNode
    \/ StopDone

SpecLp == Init /\ [][NextLp]_vars

----------------------------------------------------------------------------
(* Properties                                                              *)

\* C1: along every step, a session's transferred count never decreases and
\* stays between 0 and the session's size, failure paths included.
C1_TransferredMonotoneBounded ==
    /\ [](\A id \in DOMAIN transfers :
            /\ 0 <= transfers[id].transferred
            /\ transfers[id].size.t = "num"
            /\ transfers[id].transferred <= transfers[id].size.n)
    /\ [][\A id \in DOMAIN transfers \cap DOMAIN transfers' :
            transfers'[id].transferred >= transfers[id].transferred]_vars

\* C2: a session's status only moves forward, and a session that has reached
\* completed or error keeps that status whatever fails afterwards.
C2_StatusForwardOnly ==
    [][\A id \in DOMAIN transfers \cap DOMAIN transfers' :
         LET rank(st) == IF st = "pending" THEN 0 ELSE IF st = "transferring" THEN 1 ELSE 2
             old == transfers[id].status
             new == transfers'[id].status
         IN  /\ rank(new) >= rank(old)
             /\ old \in {"completed", "error"} => new = old]_vars

\* C3: a receiver that decodes a length prefix above 10,000 fails its
\* session having requested nothing but the 4 prefix bytes and consumed
\* nothing after them; a prefix of 10,000 or less is accepted and the
\* metadata read is requested.
C3_OversizedPrefixRejected ==
    \A id \in DOMAIN recv :
        LET r == recv[id]
            len == GetUint32(BExpand(BTake(r.wire, 4)))
        IN  (BLen(r.wire) >= 4 /\ r.pc # "readLen") =>
                IF len > MaxMetadataLength
                THEN /\ r.pc = "done" /\ r.failed
                     /\ r.err = "Invalid metadata length"
                     /\ r.reqs = 1
                     /\ r.buf = BDrop(r.wire, 4)
                     /\ r.fileIx = 0
                     /\ id \in DOMAIN transfers => transfers[id].status = "error"
                ELSE r.reqs >= 2

C3_Witness ==
    \E id \in DOMAIN recv :
        /\ BLen(recv[id].wire) = 4 + MaxMetadataLength + 1
        /\ GetUint32(BExpand(BTake(recv[id].wire, 4))) = MaxMetadataLength + 1
        /\ recv[id].pc = "done"
        /\ id \in DOMAIN transfers /\ transfers[id].status = "error"

\* C4 as stated: the stream of a sendFile that resolved, for any filename
\* and payload, is received without failure (absent an injected fault or a
\* cleared entry) and yields one ReceivedFile with the same filename and
\* bytes.
C4_RoundTripAnyName ==
    \A id \in DOMAIN recv :
        LET r == recv[id] IN
        (r.src # 0 /\ send[r.src].outcome = "resolved") =>
            /\ r.failed => (faults > 0 \/ clears > 0)
            /\ (r.pc = "done" /\ ~r.failed) => r.fileIx # 0
            /\ r.fileIx # 0 =>
                 /\ Len(receivedFiles) = 1
                 /\ receivedFiles[r.fileIx].filename = Str(send[r.src].file.name)
                 /\ BlobBytes(receivedFiles[r.fileIx].blob) = FileBytes(send[r.src].file)

\* C4 (amended): the same round trip, for every filename whose encoded
\* metadata is at most 10,000 bytes long.
C4_RoundTrip ==
    \A id \in DOMAIN recv :
        LET r == recv[id] IN
        (/\ r.src # 0 /\ send[r.src].outcome = "resolved"
         /\ BLen(MetaBytes(send[r.src].file)) <= MaxMetadataLength) =>
            /\ r.failed => (faults > 0 \/ clears > 0)
            /\ (r.pc = "done" /\ ~r.failed) => r.fileIx # 0
            /\ r.fileIx # 0 =>
                 /\ Len(receivedFiles) = 1
                 /\ receivedFiles[r.fileIx].filename = Str(send[r.src].file.name)
                 /\ BlobBytes(receivedFiles[r.fileIx].blob) = FileBytes(send[r.src].file)

C4_Witness ==
    \E id \in DOMAIN recv :
        /\ recv[id].src # 0 /\ send[recv[id].src].outcome = "resolved"
        /\ send[recv[id].src].file.size = 3 * CHUNK_SIZE + 17
        /\ recv[id].pc = "done" /\ ~recv[id].failed
        /\ recv[id].fileIx # 0

\* C5: however the invocations of registerProtocol interleave, a node never
\* has more than one handler for the protocol, has exactly one once two or
\* more invocations on it have all finished, and every inbound stream
\* starts exactly one receive session.
C5_SingleHandler ==
    /\ \A n \in Nodes : Cardinality(handlers[n]) <= 1
    /\ \A n \in Nodes :
         LET calls == { g \in DOMAIN regs : regs[g].node = n } IN
         (Cardinality(calls) >= 2 /\ \A g \in calls : regs[g].pc = "done")
             => Cardinality(handlers[n]) = 1
    /\ \A k \in 1..inbound :
         /\ Cardinality({ id \in DOMAIN recv : recv[id].stream = k }) = 1
         /\ Cardinality({ id \in DOMAIN transfers :
                            id \in DOMAIN recv /\ recv[id].stream = k }) <= 1

C5_Witness ==
    \E n \in Nodes :
        /\ Cardinality({ g \in DOMAIN regs : regs[g].node = n }) >= 2
        /\ \A g \in DOMAIN regs : regs[g].pc = "done"
        /\ node = n /\ inbound = 1
        /\ \E id \in DOMAIN recv : id \in DOMAIN transfers /\ recv[id].stream = 1

\* C6: a step changes a session's entry only if it is a step of that
\* session's own send or receive (or a clearTransfer of that entry), and
\* every finished send or receive has left its own entry terminal.
C6_SessionsIndependent ==
    /\ [][\A id \in 1..MaxSessions :
            LET had == id \in DOMAIN transfers
                has == id \in DOMAIN transfers'
                touched == had # has \/ (had /\ has /\ transfers'[id] # transfers[id])
                stepped ==
                    \/ id \in DOMAIN send' /\ (id \notin DOMAIN send \/ send'[id] # send[id])
                    \/ id \in DOMAIN recv' /\ (id \notin DOMAIN recv \/ recv'[id] # recv[id])
            IN  touched => (stepped \/ (clears' # clears /\ had /\ ~has))]_vars
    /\ [](\A id \in DOMAIN transfers :
            /\ (id \in DOMAIN send /\ send[id].pc = "done")
                   => transfers[id].status \in {"completed", "error"}
            /\ (id \in DOMAIN recv /\ recv[id].pc = "done")
                   => transfers[id].status \in {"completed", "error"})

C6_Witness ==
    \E a \in DOMAIN send, b \in DOMAIN recv :
        /\ a \in DOMAIN transfers /\ b \in DOMAIN transfers
        /\ send[a].pc = "close" /\ transfers[a].transferred = 1
        /\ recv[b].pc = "closeWritable" /\ transfers[b].transferred = 1

\* C7: a receiver whose on-disk spool could not be acquired keeps only the
\* in-memory chunks, fails for no reason other than a short stream, a
\* declared size that is not a whole number, a cleared entry or a failing
\* stream close, and otherwise completes with a
\* blob that holds exactly the payload bytes of its stream (the sent file
\* when the stream is that of a resolved sendFile).
C7_MemoryFallback ==
    \A id \in DOMAIN recv :
        LET r   == recv[id]
            len == GetUint32(BExpand(BTake(r.wire, 4)))
        IN  r.fallback =>
              /\ ~r.writable
              /\ r.pc \in {"readChunk", "closeStream", "done"}
              /\ r.failed => r.err \in {"unexpected end of input", "invalid read size",
                                        "TypeError", "stream close failed"}
              /\ (r.pc = "done" /\ ~r.failed) =>
                    /\ r.fileIx # 0
                    /\ id \in DOMAIN transfers => transfers[id].status = "completed"
              /\ r.fileIx # 0 =>
                    /\ receivedFiles[r.fileIx].filename = r.meta.filename
                    /\ receivedFiles[r.fileIx].blob =
                          MemBlob(BSlice(r.wire, 4 + len, 4 + len + r.meta.size.n))
                    /\ (r.src # 0 /\ send[r.src].outcome = "resolved") =>
                          BlobBytes(receivedFiles[r.fileIx].blob) = FileBytes(send[r.src].file)

C7_Witness ==
    \E id \in DOMAIN recv :
        /\ recv[id].fallback
        /\ recv[id].src # 0 /\ send[recv[id].src].outcome = "resolved"
        /\ send[recv[id].src].file.size = 3 * CHUNK_SIZE + 17
        /\ recv[id].pc = "done" /\ ~recv[id].failed
        /\ id \in DOMAIN transfers /\ transfers[id].status = "completed"

\* C8: every receive that has ended, successfully or not, has called
\* stream.close() exactly once.
C8_StreamClosedOnce ==
    \A id \in DOMAIN recv : recv[id].pc = "done" => recv[id].closes = 1

\* C9: once a receive has failed, the OPFS holds no entry bytehop-<id> for
\* it.
C9_SpoolDiscardedOnFailure ==
    \A id \in DOMAIN recv : recv[id].failed => id \notin DOMAIN opfs

\* C10: a sendFile that failed after creating its session has rejected, has
\* left the session (unless it was cleared) in status error with the
\* failure's message, has dialled at most once, and takes no further step.
C10_SendFailure ==
    /\ [](\A id \in DOMAIN send :
            LET s == send[id] IN
            s.err # Absent =>
                /\ s.pc = "done" /\ s.outcome = "rejected"
                /\ s.dials <= 1
                /\ id \in DOMAIN transfers =>
                       /\ transfers[id].status = "error"
                       /\ transfers[id].error = s.err
                /\ id \notin DOMAIN transfers => clears > 0)
    /\ [][\A id \in DOMAIN send :
            send[id].err # Absent =>
                /\ id \in DOMAIN send'
                /\ [send'[id] EXCEPT !.delivered = FALSE] = [send[id] EXCEPT !.delivered = FALSE]]_vars

C10_Witness ==
    \E id \in DOMAIN send :
        /\ send[id].err = "write failed"
        /\ send[id].dials = 1
        /\ send[id].offset > 0
        /\ id \in DOMAIN transfers /\ transfers[id].status = "error"

\* C11: the step on which a receive fails ends that invocation inside its
\* own catch block, leaves the node, the registered handlers and the
\* registration flag as they were, leaves every other registry entry, every
\* send and the received files untouched, and records the failing session
\* with status error and the failure's message.
C11_HandlerIsolation ==
    [][\A id \in DOMAIN recv' :
         (recv'[id].failed /\ (id \notin DOMAIN recv \/ ~recv[id].failed)) =>
             /\ recv'[id].pc = "done"
             /\ node' = node /\ handlers' = handlers
             /\ protocolRegistered' = protocolRegistered
             /\ handlers'[node'] # {}
             /\ id \in DOMAIN transfers'
             /\ transfers'[id].status = "error"
             /\ transfers'[id].error # Absent
             /\ transfers'[id].error = recv'[id].err
             /\ DOMAIN transfers' = DOMAIN transfers \cup {id}
             /\ \A o \in DOMAIN transfers \ {id} : transfers'[o] = transfers[o]
             /\ send' = send /\ receivedFiles' = receivedFiles]_vars

C11_Witness ==
    \E id \in DOMAIN recv, o \in DOMAIN send :
        /\ recv[id].failed /\ recv[id].err = "write failed"
        /\ id \in DOMAIN transfers /\ transfers[id].status = "error"
        /\ o \in DOMAIN transfers /\ transfers[o].status = "completed"
        /\ handlers[node] # {}

\* C12: every ReceivedFile belongs to a receive session whose registry
\* entry (while it is in the registry) has status completed, and a receive
\* session whose entry has status error has appended no ReceivedFile.
C12_ReceivedFileOnlyOnSuccess ==
    \A id \in DOMAIN recv :
        /\ (recv[id].fileIx # 0 /\ id \in DOMAIN transfers)
               => transfers[id].status = "completed"
        /\ (recv[id].pc = "done" /\ id \in DOMAIN transfers /\ transfers[id].status = "error")
               => recv[id].fileIx = 0

\* C13: every registry entry, send or receive, carries an error message
\* exactly when its status is error.
C13_ErrorIffMessage ==
    \A id \in DOMAIN transfers :
        (transfers[id].error # Absent) <=> (transfers[id].status = "error")

C13_Witness ==
    \E a \in DOMAIN send, b \in DOMAIN recv :
        /\ a \in DOMAIN transfers /\ b \in DOMAIN transfers
        /\ transfers[a].status = "error" /\ transfers[a].error = "write failed"
        /\ transfers[b].status = "error" /\ transfers[b].error = "unexpected end of input"

\* C14: the size stored in a session's registry entry never changes while
\* the entry is in the registry, failure paths included.
C14_SizeFixed ==
    [][\A id \in DOMAIN transfers \cap DOMAIN transfers' :
         transfers'[id].size = transfers[id].size]_vars

\* C15: a receive whose header metadata is not valid JSON, lacks filename
\* or size, or declares a size that is not a non-negative integer ends in
\* error right after the metadata read: no payload read is requested and no
\* ReceivedFile is appended.
C15_MalformedMetadataRejected ==
    \A id \in DOMAIN recv :
        LET r   == recv[id]
            len == GetUint32(BExpand(BTake(r.wire, 4)))
            m   == ParseMetadata(BSlice(r.wire, 4, 4 + len))
            valid == /\ m.ok
                     /\ m.obj.filename.t = "str"
                     /\ m.obj.size.t = "num" /\ m.obj.size.n >= 0
        IN  (/\ BLen(r.wire) >= 4
             /\ len <= MaxMetadataLength
             /\ BLen(r.wire) >= 4 + len
             /\ ~valid
             /\ r.pc \notin {"readLen", "readMeta"}) =>
                /\ r.pc = "done" /\ r.failed
                /\ r.reqs = 2
                /\ r.fileIx = 0
                /\ id \in DOMAIN transfers => transfers[id].status = "error"

\* C16: a receive whose stream holds fewer payload bytes than its header
\* declares never appends a ReceivedFile and never shows status completed;
\* once it has ended it has failed and its entry has status error.
C16_ShortStreamFails ==
    \A id \in DOMAIN recv :
        LET r   == recv[id]
            len == GetUint32(BExpand(BTake(r.wire, 4)))
            m   == ParseMetadata(BSlice(r.wire, 4, 4 + len))
        IN  (/\ BLen(r.wire) >= 4
             /\ len <= MaxMetadataLength
             /\ BLen(r.wire) >= 4 + len
             /\ m.ok /\ m.obj.size.t = "num"
             /\ BLen(r.wire) - 4 - len < m.obj.size.n) =>
                /\ r.fileIx = 0
                /\ id \in DOMAIN transfers => transfers[id].status # "completed"
                /\ r.pc = "done" =>
                      /\ r.failed
                      /\ id \in DOMAIN transfers => transfers[id].status = "error"

C16_Witness ==
    \E id \in DOMAIN recv :
        /\ recv[id].pc = "done" /\ recv[id].err = "unexpected end of input"
        /\ recv[id].meta.size = Num(CHUNK_SIZE + 1)
        /\ BLen(recv[id].swap) = CHUNK_SIZE
        /\ recv[id].fileIx = 0
        /\ id \in DOMAIN transfers /\ transfers[id].status = "error"

\* C17: while a receive is decoding its header (before the 4-byte read and
\* the metadata read have returned) the registry holds an entry for it with
\* status pending.
C17_PendingBeforeHeader ==
    \A id \in DOMAIN recv :
        recv[id].pc \in {"readLen", "readMeta"} =>
            /\ id \in DOMAIN transfers
            /\ transfers[id].status = "pending"

\* C18: a receive chooses its spool strategy before it requests the first
\* payload chunk and never changes it afterwards; a session on the
\* persistent target never buffers a chunk in memory, a session on the
\* memory buffer never writes to a persistent target, and a failed write to
\* the persistent target ends the session in error.
C18_OneSpoolStrategy ==
    /\ [](\A id \in DOMAIN recv :
            LET r == recv[id] IN
            /\ r.pc \in {"readLen", "readMeta", "getDirectory", "getFileHandle", "createWritable"}
                  => (r.chunks = <<>> /\ r.swap = <<>> /\ r.chunk = <<>> /\ r.reqs <= 2)
            /\ r.writable => r.chunks = <<>>
            /\ ~r.writable => r.swap = <<>>
            /\ r.err = "write failed" =>
                  /\ r.pc = "done" /\ r.writable /\ r.fileIx = 0
                  /\ id \in DOMAIN transfers => transfers[id].status = "error")
    /\ [][\A id \in DOMAIN recv :
            recv[id].pc \in {"readChunk", "write", "closeWritable", "getFile", "closeStream", "done"}
                => recv'[id].writable = recv[id].writable]_vars

C18_Witness ==
    \E id \in DOMAIN recv :
        /\ recv[id].err = "write failed"
        /\ BLen(recv[id].swap) = CHUNK_SIZE
        /\ recv[id].chunks = <<>>
        /\ id \in DOMAIN transfers /\ transfers[id].status = "error"

C20_LookupHonoursTtl ==
    [][\A code \in DOMAIN relay.created :
         (/\ relay'.resp.seq # relay.resp.seq
          /\ relay'.resp.method = "GET"
          /\ relay'.resp.code = code) =>
             LET age == relay.now - relay.created[code].createdAt IN
             /\ age < CODE_EXPIRY_MS =>
                   /\ relay'.resp.status = 200
                   /\ relay'.resp.address = relay.created[code].address
                   /\ relay'.registry = relay.registry
             /\ age > CODE_EXPIRY_MS =>
                   /\ relay'.resp.status = 404
                   /\ code \notin DOMAIN relay'.registry]_vars

C20_Witness ==
    /\ relay.resp.method = "GET" /\ relay.resp.status = 404
    /\ relay.resp.code \in DOMAIN relay.created
    /\ relay.now - relay.created[relay.resp.code].createdAt = CODE_EXPIRY_MS + 1
    /\ relay.lastSweep = 0

\* C21: an entry leaves the code registry only when more than
\* CODE_EXPIRY_MS has passed since its creation; a sweep removes exactly the
\* entries older than CODE_EXPIRY_MS and leaves every other entry (code,
\* address, creation time) as it was.
C21_SweepHonoursTtl ==
    [][/\ \A code \in DOMAIN relay.registry :
            \/ /\ code \in DOMAIN relay'.registry
               /\ relay'.registry[code] = relay.registry[code]
            \/ relay.now - relay.registry[code].createdAt > CODE_EXPIRY_MS
       /\ relay'.lastSweep # relay.lastSweep =>
            /\ DOMAIN relay'.registry =
                  { code \in DOMAIN relay.registry :
                      relay.now - relay.registry[code].createdAt <= CODE_EXPIRY_MS }
            /\ \A code \in DOMAIN relay'.registry :
                  relay'.registry[code] = relay.registry[code]]_vars

C21_Witness ==
    /\ relay.lastSweep = relay.now /\ relay.now > 0
    /\ relay.resp.method = "POST" /\ relay.resp.seq = 2
    /\ \E gone \in DOMAIN relay.created \ DOMAIN relay.registry :
          relay.now - relay.created[gone].createdAt = CODE_EXPIRY_MS + 1
    /\ \E kept \in DOMAIN relay.registry :
          /\ relay.now - relay.registry[kept].createdAt = CODE_EXPIRY_MS
          /\ relay.registry[kept] = relay.created[kept]

\* C22: a check of the worker that sees no window client goes on to purge
\* and, when the purge returns, no spool file that was there at the check
\* is left in the OPFS (other than the target of a session of an open
\* page); a check that sees a client removes nothing and leaves
\* cleanupTimer and the interval as they were; and only a check that saw
\* no client ever removes a file.
C22_PurgeIffNoClients ==
    [][/\ \A r \in DOMAIN sw.runs :
            /\ sw.runs[r].pc = "matchAll" /\ sw'.runs # sw.runs =>
                  IF WindowClients = 0
                  THEN r \in DOMAIN sw'.runs /\ sw'.runs[r].pc = "getDirectory"
                  ELSE /\ r \notin DOMAIN sw'.runs
                       /\ opfs' = opfs
                       /\ sw'.timer = sw.timer /\ sw'.live = sw.live
            /\ sw.runs[r].seen = 0 /\ r \notin DOMAIN sw'.runs =>
                  (sw.runs[r].found \cap DOMAIN opfs') \subseteq DOMAIN recv'
       /\ DOMAIN opfs \ DOMAIN opfs' # {} =>
            \E r \in DOMAIN sw.runs : sw.runs[r].seen = 0 /\ sw.runs[r].pc = "entries"]_vars

\* C23: an entry with status error stays in the registry as it is (status,
\* message and every other field) and its invocation stays finished, until
\* a clearTransfer call removes it; a clearTransfer call removes exactly
\* one entry and leaves every other entry and receivedFiles as they were.
C23_ErrorStaysUntilCleared ==
    [][/\ \A id \in DOMAIN transfers :
            transfers[id].status = "error" =>
               \/ /\ id \in DOMAIN transfers' /\ transfers'[id] = transfers[id]
                  /\ id \in DOMAIN recv => recv'[id] = recv[id]
                  /\ id \in DOMAIN send => send'[id].pc = "done"
               \/ clears' = clears + 1 /\ id \notin DOMAIN transfers'
       /\ clears' # clears =>
            /\ \E id \in DOMAIN transfers :
                  /\ DOMAIN transfers' = DOMAIN transfers \ {id}
                  /\ \A x \in DOMAIN transfers' : transfers'[x] = transfers[x]
            /\ receivedFiles' = receivedFiles]_vars

C23_Witness ==
    /\ clears = 1
    /\ \E id \in DOMAIN recv :
          /\ recv[id].failed /\ recv[id].err = "getFile failed"
          /\ id \notin DOMAIN transfers
    /\ \E x \in DOMAIN transfers : transfers[x].status = "completed"
    /\ receivedFiles = <<>>

\* C24: once sendFile has looked at the node's connections, it dials the
\* address of the first WebRTC connection to the target peer in the order
\* getConnections returned them if there is one, otherwise of the first
\* connection to the target peer; with no connection to the target peer it
\* dials nothing and the session ends in error.
C24_ConnectionChoice ==
    \A id \in DOMAIN send :
        send[id].looked =>
            LET s      == send[id]
                mine   == { i \in DOMAIN s.conns : s.conns[i].remotePeer = s.peer }
                direct == { i \in mine : s.conns[i].webrtc }
                first(S) == CHOOSE i \in S : \A j \in S : i <= j
            IN  IF mine = {}
                THEN /\ s.dials = 0 /\ s.addr = ""
                     /\ s.pc = "done" /\ s.outcome = "rejected"
                     /\ id \in DOMAIN transfers => transfers[id].status = "error"
                ELSE /\ s.dials = 1
                     /\ s.addr = s.conns[first(IF direct # {} THEN direct ELSE mine)].remoteAddr

C24_Witness ==
    \E id \in DOMAIN send :
        /\ send[id].looked /\ Len(send[id].conns) = 4
        /\ send[id].peer = "p1" /\ send[id].addr = "rtc1"
        /\ send[id].outcome = "resolved"

\* C25: while sendFile awaits the dial its entry is pending; when the dial
\* deadline expires the entry goes from pending to error with the timeout
\* as message, sendFile rejects, and the invocation has written no byte,
\* holds no stream and never continues.
C25_DialDeadline ==
    [][\A id \in DOMAIN send :
         /\ send[id].pc = "dial" /\ id \in DOMAIN transfers =>
               transfers[id].status = "pending"
         /\ send[id].pc = "dial" /\ send'[id].err = DialTimeout =>
               /\ send'[id].pc = "done" /\ send'[id].outcome = "rejected"
               /\ send'[id].sent = <<>> /\ send'[id].stream = "none"
               /\ id \in DOMAIN transfers =>
                     /\ id \in DOMAIN transfers'
                     /\ transfers'[id].status = "error"
                     /\ transfers'[id].error = DialTimeout
         /\ send[id].err = DialTimeout =>
               /\ send'[id].pc = "done" /\ send'[id].sent = <<>> /\ send'[id].stream = "none"
               /\ id \in DOMAIN transfers' => transfers'[id].status = "error"]_vars

C25_Witness ==
    \E id \in DOMAIN send :
        /\ send[id].err = DialTimeout /\ send[id].outcome = "rejected"
        /\ send[id].dials = 1 /\ send[id].sent = <<>>
        /\ id \in DOMAIN transfers
        /\ transfers[id].status = "error" /\ transfers[id].error = DialTimeout

\* C26: a send entry becomes transferring only in the step in which the
\* dial returns the stream; what sendFile has written is always a prefix of
\* length prefix, metadata, payload in that order; the entry's transferred
\* count never exceeds the payload bytes whose write has returned and
\* changes only when a chunk write returns; and the entry becomes
\* completed only in the step in which stream.close() returns, with the
\* whole payload written.
C26_SendOrder ==
    [][\A id \in DOMAIN send :
         LET s    == send[id]
             hdr  == WireHeader(Stringify(s.file.name, s.file.size), 0)
             full == BCat(hdr, FileBytes(s.file))
             paid(x) == IF BLen(x.sent) > BLen(hdr) THEN BLen(x.sent) - BLen(hdr) ELSE 0
         IN  /\ s.sent = BTake(full, BLen(s.sent))
             /\ s.offset = paid(s)
             /\ id \in DOMAIN transfers /\ id \in DOMAIN transfers' =>
                  LET e == transfers[id]
                      f == transfers'[id]
                  IN  /\ e.transferred <= paid(s)
                      /\ e.status = "transferring" => s.stream # "none"
                      /\ e.status # "transferring" /\ f.status = "transferring" =>
                            s.pc = "dial" /\ s.stream = "none" /\ send'[id].stream = "open"
                      /\ f.transferred # e.transferred =>
                            /\ s.pc = "writeChunk"
                            /\ f.transferred = paid(send'[id])
                            /\ paid(send'[id]) = paid(s) + BLen(s.chunk)
                      /\ e.status # "completed" /\ f.status = "completed" =>
                            /\ s.pc = "close" /\ send'[id].stream = "closed"
                            /\ s.sent = full]_vars

C26_Witness ==
    \E id \in DOMAIN send :
        /\ send[id].file.size = 3 * CHUNK_SIZE + 17
        /\ send[id].outcome = "resolved" /\ send[id].stream = "closed"
        /\ id \in DOMAIN transfers
        /\ transfers[id].status = "completed"
        /\ transfers[id].transferred = 3 * CHUNK_SIZE + 17

\* C27: every chunk sendFile writes and every chunk read the receiver
\* requests is for a whole number of bytes from 1 to CHUNK_SIZE, a read
\* request is for min(remaining, CHUNK_SIZE) bytes, a session that
\* succeeded has moved exactly the declared number of payload bytes, and a
\* session of declared size 0 issues no payload read or write.
C27_ChunkSizes ==
    /\ \A id \in DOMAIN send :
          LET s == send[id] IN
          /\ s.pc = "writeChunk" => BLen(s.chunk) >= 1 /\ BLen(s.chunk) <= CHUNK_SIZE
          /\ s.outcome = "resolved" => s.offset = s.file.size
          /\ s.file.size = 0 => s.pc \notin {"arrayBuffer", "writeChunk"} /\ s.offset = 0
    /\ \A id \in DOMAIN recv :
          LET r == recv[id] IN
          /\ r.pc = "readChunk" =>
                /\ ~r.half /\ r.want >= 1 /\ r.want <= CHUNK_SIZE
                /\ r.remaining.t = "num" /\ r.want = Min(r.remaining.n, CHUNK_SIZE)
          /\ r.fileIx # 0 =>
                /\ r.meta.size.t = "num"
                /\ BLen(BCat(r.swap, Concat(r.chunks))) = r.meta.size.n
          /\ r.meta.size = Num(0) => r.pc \notin {"readChunk", "write"} /\ r.reqs <= 2

\* C28: a receive session's spool file is named after its own session id
\* and ids are never handed out twice: an id given to a new session is
\* larger than every id handed out before, and a spool file is created or
\* given new content only by a step of the session it is named after, at
\* that session's getFileHandle or writable.close().
C28_SpoolKeyPerSession ==
    [][ /\ \A id \in (DOMAIN recv' \ DOMAIN recv) \cup (DOMAIN send' \ DOMAIN send) :
              /\ id > nextId
              /\ id \notin DOMAIN recv \cup DOMAIN send \cup DOMAIN transfers \cup DOMAIN opfs
        /\ \A k \in DOMAIN opfs' :
              (k \notin DOMAIN opfs \/ opfs'[k] # opfs[k]) =>
                 /\ k \in DOMAIN recv
                 /\ recv[k].pc \in {"getFileHandle", "closeWritable"}
                 /\ recv'[k].pc # recv[k].pc
                 /\ \A j \in DOMAIN recv \ {k} : recv'[j] = recv[j] ]_vars

\* two receive sessions have their spool files open at the same time
C28_Witness ==
    \E a, b \in DOMAIN recv :
       /\ a # b
       /\ recv[a].writable /\ recv[a].pc = "write"
       /\ recv[b].writable /\ recv[b].pc \in {"write", "closeWritable"}
       /\ {a, b} \subseteq DOMAIN opfs

\* C29: a session, sending or receiving, whose status is completed has
\* transferred equal to its size.
C29_CompletedIsWhole ==
    \A id \in DOMAIN transfers :
       transfers[id].status = "completed" =>
          transfers[id].size.t = "num" /\ transfers[id].transferred = transfers[id].size.n

\* the session has a final status, or its entry was cleared and the
\* invocation that owns it has returned
Settled(id) ==
    IF id \in DOMAIN transfers
    THEN transfers[id].status \in {"completed", "error"}
    ELSE \/ id \in DOMAIN send /\ send[id].pc = "done"
         \/ id \in DOMAIN recv /\ recv[id].pc = "done"

\* C30: when every await settles, every session started by sendFile or by
\* an inbound stream eventually has status completed or error; none stays
\* pending or transferring (or without a status) forever.
C30_SessionsSettle ==
    \A id \in 1..MaxSessions :
       (id \in DOMAIN send \cup DOMAIN recv) ~> Settled(id)

\* C31: a receive session that shows status completed has its ReceivedFile,
\* with the session's filename, in receivedFiles already, and receivedFiles
\* has exactly one entry per receive session that was ever set to completed.
C31_CompletedHasFile ==
    /\ \A id \in DOMAIN transfers :
          transfers[id].direction = "receive" /\ transfers[id].status = "completed" =>
             /\ id \in DOMAIN recv
             /\ recv[id].fileIx \in 1..Len(receivedFiles)
             /\ receivedFiles[recv[id].fileIx].filename = transfers[id].filename
    /\ Len(receivedFiles) = Cardinality({ id \in DOMAIN recv : recv[id].fileIx # 0 })

\* a receive session shows completed while stream.close() is still awaited
C31_Witness ==
    \E id \in DOMAIN recv :
       /\ recv[id].pc = "closeStream"
       /\ id \in DOMAIN transfers /\ transfers[id].status = "completed"
       /\ Len(receivedFiles) = 1

\* C32: whenever node.value is a libp2p node, also a new node created after
\* the previous one was stopped, the protocol handler eventually is
\* registered on that node (or the node is replaced before that).
C32_HandlerFollowsNode ==
    \A n \in Nodes : (node = n) ~> (node # n \/ handlers[n] # {})

\* C33: the purge of the worker never removes the spool file of a receive
\* session that is running in an open page.
C33_PurgeSparesOpenSessions ==
    [][\A k \in DOMAIN opfs \ DOMAIN opfs' :
          ~(/\ sw.page
            /\ k \in DOMAIN recv
            /\ recv[k].fileHandle
            /\ recv[k].pc # "done")]_vars

\* C34: the worker never has more than one interval: the live intervals are
\* exactly the one cleanupTimer names, whatever messages arrive and however
\* callbacks overlap with a running purge; when an interval callback returns
\* from a purge no interval is left and cleanupTimer is null; and whenever
\* cleanupTimer is null a 'bytehop-session-active' message from the page
\* starts an interval again.
C34_OneTimer ==
    [][/\ Cardinality(sw'.live) <= 1
       /\ sw'.live = (IF sw'.timer = 0 THEN {} ELSE {sw'.timer})
       /\ \A r \in DOMAIN sw.runs \ DOMAIN sw'.runs :
             sw.runs[r].kind = "interval" /\ sw.runs[r].seen = 0 =>
                sw'.timer = 0 /\ sw'.live = {}
       /\ sw.active /\ sw.page /\ sw.timer = 0 => ENABLED SwMessage
       /\ sw.timer = 0 /\ sw'.timer # 0 => sw'.live = {sw'.timer} /\ sw.live = {}]_vars

\* a callback's purge has cleared the interval, a message from a page
\* opened since has started a new one, and another callback that saw no
\* client is still purging
C34_Witness ==
    /\ sw.last.kind = "interval" /\ sw.last.seen = 0
    /\ sw.page /\ sw.timer # 0
    /\ \E r \in DOMAIN sw.runs :
          sw.runs[r].kind = "interval" /\ sw.runs[r].seen = 0

\* the peers other than the relay to which a connection is open
OpenPeers == { c.peer : c \in lp.conns } \ {RelayPeer}

\* C35: connectedPeers has no duplicates, does not hold the relay's peer id
\* once connectToRelay has set relayPeerId, and lists a peer other than the
\* relay exactly when a connection to that peer is open, also when one of
\* several connections to a peer has closed.
C35_ConnectedPeersExact ==
    /\ \A i, j \in 1..Len(lp.connectedPeers) :
          lp.connectedPeers[i] = lp.connectedPeers[j] => i = j
    /\ lp.relayPeerId # "" => ~Includes(lp.connectedPeers, lp.relayPeerId)
    /\ \A p \in LpPeers \ {RelayPeer} :
          Includes(lp.connectedPeers, p) <=> p \in OpenPeers

\* C36: however initNode calls overlap, at most one libp2p node is running,
\* and state.node is that node (null when none is running), except while
\* stopNode awaits node.stop().
C36_SingleNode ==
    /\ Cardinality(lp.running) <= 1
    /\ lp.stopping = 0 =>
          lp.running = (IF lp.node = 0 THEN {} ELSE {lp.node})

\* C37: a POST /code that answers 200 adds exactly one entry, under a
\* 6-digit code that was not in the registry, with the posted address and
\* the current time, and leaves every entry that was there as it was.
C37_FreshCode ==
    [][(/\ relay'.resp.seq # relay.resp.seq
        /\ relay'.resp.method = "POST"
        /\ relay'.resp.status = 200) =>
           LET code == relay'.resp.code IN
           /\ code \notin DOMAIN relay.registry
           /\ code >= 100000 /\ code <= 999999
           /\ DOMAIN relay'.registry = DOMAIN relay.registry \cup {code}
           /\ \A c \in DOMAIN relay.registry : relay'.registry[c] = relay.registry[c]
           /\ relay'.registry[code].address \in Addresses
           /\ relay'.registry[code].createdAt = relay.now]_vars

\* two registrations are live under different codes, with different
\* addresses, the second made after the first
C37_Witness ==
    /\ relay.resp.method = "POST" /\ relay.resp.status = 200
    /\ \E a, b \in DOMAIN relay.registry :
          /\ a # b /\ b = relay.resp.code
          /\ relay.registry[a].address # relay.registry[b].address
          /\ relay.registry[a].createdAt < relay.registry[b].createdAt

\* C38: a request to /code that is rejected leaves the registry as it was:
\* a POST that is not answered 200 is answered 400, a GET without a code
\* 400, a GET of a code that is not registered 404, a request with a method
\* other than GET and POST 405, and none of them adds, removes or changes
\* an entry.
C38_RejectedLeavesRegistry ==
    [][relay'.resp.seq # relay.resp.seq =>
          LET r == relay'.resp IN
          /\ r.method \notin {"GET", "POST"} => r.status = 405
          /\ r.method = "POST" => r.status \in {200, 400}
          /\ r.method = "GET" /\ r.code = 0 => r.status = 400
          /\ r.method = "GET" /\ r.code # 0 /\ r.code \notin DOMAIN relay.registry =>
                r.status = 404
          /\ (r.status \in {400, 405} \/
              (r.status = 404 /\ r.code \notin DOMAIN relay.registry)) =>
                relay'.registry = relay.registry]_vars

====
